---------------------------- MODULE Spec2Model ----------------------------
(***************************************************************************)
(* Model of the UM7 serial driver (um7py/um7_serial.py): the frame codec,  *)
(* the packet validator, the register transactions read_register and       *)
(* write_register, and the receive buffer they share with the transport.   *)
(* Bytes are integers 0..255 and byte strings are sequences of bytes.      *)
(***************************************************************************)
EXTENDS Integers, Sequences, FiniteSets, TLC

VARIABLES
    \* ---- codec harness: pure functions applied to drawn inputs
    ctest,      \* which function the drawn input exercises
    cframes,    \* the frames the carved buffer was assembled from
    cbuf,       \* the buffer handed to the next find_packet call
    cout,       \* the frames find_packet has returned so far, in order
    cargs,      \* <<packet_type, address, payload>> for construct_packet
    built,      \* the outcome of construct_packet
    verified,   \* the outcome of verify_checksum on the built frame
    \* ---- driver
    buffer,     \* self.buffer
    rx,         \* bytes the device has put on the line, not yet read
    pc,         \* where the running call is blocked ("idle": no call)
    call,       \* the running (or last) call: operation, reg_addr, hidden
    sent,       \* the request frames the running call has written
    elapsed,    \* monotonic() - t at the last evaluation of the loop test
    result,     \* what the last call gave its caller
    reply,      \* sensor_reply of the last call
    gen,        \* the recv_broadcast generator: where it stands, its counters
    yielded,    \* the packets the generator has yielded, in order
    \* ---- record of the run
    arrived     \* broadcast runs: the frames the device streams, in order

codecVars == <<ctest, cframes, cbuf, cout, cargs, built, verified>>
callVars == <<call, sent, elapsed, result, reply>>
bcastVars == <<gen, yielded>>
driverVars == <<buffer, rx, pc, call, sent, elapsed, result, reply, gen, yielded,
                arrived>>
vars == <<ctest, cframes, cbuf, cout, cargs, built, verified,
          buffer, rx, pc, call, sent, elapsed, result, reply, gen, yielded,
          arrived>>

---------------------------------------------------------------------------
(* Python's bytes operations *)

Min(a, b) == IF a <= b THEN a ELSE b
Max(a, b) == IF a >= b THEN a ELSE b

\* A slice bound as Python clamps it: negative counts from the end.
PyIndex(s, i) == IF i < 0 THEN Max(Len(s) + i, 0) ELSE Min(i, Len(s))

\* s[a:b]
Slice(s, a, b) == SubSeq(s, PyIndex(s, a) + 1, PyIndex(s, b))

\* s[a:]
SliceFrom(s, a) == SubSeq(s, PyIndex(s, a) + 1, Len(s))

\* s.find(pat): the lowest 0-based index where pat occurs, -1 if none
PyFind(s, pat) ==
    LET hits == {i \in 0..(Len(s) - Len(pat)) : SubSeq(s, i + 1, i + Len(pat)) = pat}
    IN  IF hits = {} THEN -1 ELSE CHOOSE i \in hits : \A j \in hits : i <= j

\* The sum of the bytes of s (split in halves to keep the evaluation shallow).
RECURSIVE SumBytes(_)
SumBytes(s) ==
    IF Len(s) = 0 THEN 0
    ELSE IF Len(s) = 1 THEN s[1]
    ELSE SumBytes(SubSeq(s, 1, Len(s) \div 2))
         + SumBytes(SubSeq(s, Len(s) \div 2 + 1, Len(s)))

RECURSIVE Concat(_)
Concat(ss) == IF ss = <<>> THEN <<>> ELSE ss[1] \o Concat(Tail(ss))

\* int.from_bytes(s, byteorder='big', signed=False)
RECURSIVE FromBytes(_)
FromBytes(s) ==
    IF s = <<>> THEN 0 ELSE 256 * FromBytes(SubSeq(s, 1, Len(s) - 1)) + s[Len(s)]

\* A function's outcome: the value it returns, or the exception it raises.
Return(v) == [exc |-> "none", val |-> v]
Raise(e) == [exc |-> e, val |-> <<>>]

\* int.to_bytes(n, length=2, byteorder='big', signed=False)
ToBytes2(n) ==
    IF n < 0 \/ n > 65535 THEN Raise("OverflowError")
    ELSE Return(<<n \div 256, n % 256>>)

\* int.to_bytes(n, length=1, byteorder='big')
ToBytes1(n) ==
    IF n < 0 \/ n > 255 THEN Raise("OverflowError") ELSE Return(<<n>>)

---------------------------------------------------------------------------
(* Frame codec *)

get_preamble == <<115, 110, 112>>

\* Mutant: the checksum bytes in little-endian order.
compute_checksum_le(partial_packet) ==
    LET be == ToBytes2(SumBytes(partial_packet))
    IN  IF be.exc # "none" THEN be ELSE Return(<<be.val[2], be.val[1]>>)

\* Mutant: the checksum is the low byte of the sum behind a zero byte.
compute_checksum_low_byte(partial_packet) ==
    Return(<<0, SumBytes(partial_packet) % 256>>)

compute_checksum(partial_packet) == ToBytes2(SumBytes(partial_packet))

construct_packet(packet_type, address, payload) ==
    LET packet_type_byte == ToBytes1(packet_type)
        address_byte == ToBytes1(address)
    IN  IF packet_type_byte.exc # "none" THEN packet_type_byte
        ELSE IF address_byte.exc # "none" THEN address_byte
        ELSE LET partial_packet ==
                     get_preamble \o packet_type_byte.val \o address_byte.val \o payload
                 checksum == compute_checksum(partial_packet)
             IN  IF checksum.exc # "none" THEN checksum
                 ELSE Return(partial_packet \o checksum.val)

\* Mutant: the second search's index taken as absolute, the +3 forgotten.
find_packet_no_offset(sensor_response) ==
    LET packet_start_idx == PyFind(sensor_response, get_preamble)
        next_packet_rel_idx ==
            PyFind(SliceFrom(sensor_response, packet_start_idx + 3), get_preamble)
        next_packet_start_idx == packet_start_idx + next_packet_rel_idx
    IN  IF packet_start_idx = -1 THEN <<(<<>>), (<<>>)>>
        ELSE IF next_packet_start_idx = -1 THEN <<(<<>>), (<<>>)>>
        ELSE << Slice(sensor_response, packet_start_idx, next_packet_start_idx),
                SliceFrom(sensor_response, next_packet_start_idx) >>

\* Mutant: without a preamble the buffer is handed back as the remainder.
find_packet_keep_buffer(sensor_response) ==
    LET packet_start_idx == PyFind(sensor_response, get_preamble)
        next_packet_rel_idx ==
            PyFind(SliceFrom(sensor_response, packet_start_idx + 3), get_preamble)
        next_packet_start_idx == packet_start_idx + 3 + next_packet_rel_idx
    IN  IF packet_start_idx = -1 THEN <<(<<>>), sensor_response>>
        ELSE IF next_packet_start_idx = -1 THEN <<(<<>>), (<<>>)>>
        ELSE << Slice(sensor_response, packet_start_idx, next_packet_start_idx),
                SliceFrom(sensor_response, next_packet_start_idx) >>

\* Mutant: a frame whose end is not in the data yet is left in the buffer.
find_packet_wait(sensor_response) ==
    LET packet_start_idx == PyFind(sensor_response, get_preamble)
        next_packet_rel_idx ==
            PyFind(SliceFrom(sensor_response, packet_start_idx + 3), get_preamble)
        next_packet_start_idx == packet_start_idx + 3 + next_packet_rel_idx
    IN  IF packet_start_idx = -1 THEN <<(<<>>), (<<>>)>>
        ELSE IF next_packet_rel_idx = -1 THEN <<(<<>>), sensor_response>>
        ELSE << Slice(sensor_response, packet_start_idx, next_packet_start_idx),
                SliceFrom(sensor_response, next_packet_start_idx) >>

find_packet(sensor_response) ==
    LET packet_start_idx == PyFind(sensor_response, get_preamble)
        next_packet_rel_idx ==
            PyFind(SliceFrom(sensor_response, packet_start_idx + 3), get_preamble)
        next_packet_start_idx == packet_start_idx + 3 + next_packet_rel_idx
    IN  IF packet_start_idx = -1 THEN <<(<<>>), (<<>>)>>
        ELSE IF next_packet_start_idx = -1 THEN <<(<<>>), (<<>>)>>
        ELSE << Slice(sensor_response, packet_start_idx, next_packet_start_idx),
                SliceFrom(sensor_response, next_packet_start_idx) >>

verify_checksum(packet) ==
    SumBytes(Slice(packet, 0, -2)) = FromBytes(SliceFrom(packet, -2))


\* Mutant: a data_length of 16 is let through.
construct_packet_type_16(has_data, is_batch, data_length, hidden, command_failed) ==
    LET bit(b) == IF b THEN 1 ELSE 0
    IN  IF data_length > 16 THEN [exc |-> "RslException", val |-> 0]
        ELSE [exc |-> "none",
              val |-> bit(has_data) * 128 + bit(is_batch) * 64 + data_length * 4
                      + bit(hidden) * 2 + bit(command_failed)]

\* The five fields packed in the type byte.
construct_packet_type(has_data, is_batch, data_length, hidden, command_failed) ==
    LET bit(b) == IF b THEN 1 ELSE 0
    IN  IF data_length > 15 THEN [exc |-> "RslException", val |-> 0]
        ELSE [exc |-> "none",
              val |-> bit(has_data) * 128 + bit(is_batch) * 64 + data_length * 4
                      + bit(hidden) * 2 + bit(command_failed)]

\* Mutant: the batch length is read from three bits.
get_packet_type_3_bits(extracted_packet_type) ==
    LET bit(k) == (extracted_packet_type \div k) % 2 = 1
    IN  <<bit(128), bit(64), (extracted_packet_type \div 4) % 8, bit(2), bit(1)>>

\* has_data, is_batch, batch_length, hidden, command_failed of a type byte.
get_packet_type(extracted_packet_type) ==
    LET bit(k) == (extracted_packet_type \div k) % 2 = 1
        has_data == bit(128)
        is_batch == bit(64)
        batch_length == (extracted_packet_type \div 4) % 16
        hidden == bit(2)
        command_failed == bit(1)
    IN  <<has_data, is_batch, batch_length, hidden, command_failed>>

---------------------------------------------------------------------------
(* Packet validator *)

\* Mutant: the payload is cut one byte short of the checksum.
get_payload_short(packet) ==
    IF ~verify_checksum(packet) THEN Raise("RslException")
    ELSE Return(Slice(packet, 5, -3))

get_payload(packet) ==
    IF ~verify_checksum(packet) THEN Raise("RslException")
    ELSE Return(Slice(packet, 5, -2))

\* Mutant: a frame with data_len > 0 passes only with is_batch set.
check_packet_batch_bit(packet) ==
    LET packet_type == packet[4]
        has_data == (packet_type \div 128) % 2 = 1
        is_batch == (packet_type \div 64) % 2 = 1
        data_len == (packet_type \div 4) % 16
        error == packet_type % 2
    IN  IF error # 0 THEN FALSE
        ELSE IF ~has_data /\ Len(packet) # 7 THEN FALSE
        ELSE IF has_data /\ data_len = 0 /\ Len(packet) # 11 THEN FALSE
        ELSE IF has_data /\ data_len > 0 /\ Len(packet) # 7 + 4 * data_len THEN FALSE
        ELSE IF has_data /\ data_len > 0 /\ ~is_batch THEN FALSE
        ELSE TRUE

\* packet[3] is read: the packet holds at least 4 bytes where this is used.
check_packet(packet) ==
    LET packet_type == packet[4]
        has_data == (packet_type \div 128) % 2 = 1
        data_len == (packet_type \div 4) % 16
        error == packet_type % 2
    IN  IF error # 0 THEN FALSE
        ELSE IF ~has_data /\ Len(packet) # 7 THEN FALSE
        ELSE IF has_data /\ data_len = 0 /\ Len(packet) # 11 THEN FALSE
        ELSE IF has_data /\ data_len > 0 /\ Len(packet) # 7 + 4 * data_len THEN FALSE
        ELSE TRUE

---------------------------------------------------------------------------
(* Transaction engine *)

buffer_size == 125

\* Mutant: the hidden bit of the response is not compared.
response_matches_any_hidden(packet, reg_addr, hidden, expected_length) ==
    packet[5] = reg_addr /\ Len(packet) = expected_length

\* Mutant: the length of the response is not compared.
response_matches_any_length(packet, reg_addr, hidden, expected_length) ==
    LET is_packet_hidden == (packet[4] \div 2) % 2 = 1
    IN  packet[5] = reg_addr /\ hidden = is_packet_hidden

\* The test of find_response on a packet of at least 5 bytes.
response_matches(packet, reg_addr, hidden, expected_length) ==
    LET packet_type == packet[4]
        is_packet_hidden == (packet_type \div 2) % 2 = 1
        response_addr == packet[5]
    IN  response_addr = reg_addr /\ hidden = is_packet_hidden
        /\ Len(packet) = expected_length

\* Mutant: the packets passed over on the way to the response are put back
\* in front of the bytes that follow it.
RECURSIVE find_response_from(_, _, _, _, _)
find_response_from(buf, kept, reg_addr, hidden, expected_length) ==
    IF Len(buf) = 0
    THEN [exc |-> "none", found |-> FALSE, packet |-> <<>>, buffer |-> buf]
    ELSE LET packet == find_packet(buf)[1]
             rest == find_packet(buf)[2]
         IN  IF Len(packet) < 4
             THEN [exc |-> "none", found |-> FALSE, packet |-> <<>>, buffer |-> rest]
             ELSE IF Len(packet) < 5
             THEN [exc |-> "IndexError", found |-> FALSE, packet |-> <<>>,
                   buffer |-> rest]
             ELSE IF response_matches(packet, reg_addr, hidden, expected_length)
             THEN [exc |-> "none", found |-> TRUE, packet |-> packet,
                   buffer |-> kept \o rest]
             ELSE find_response_from(rest, kept \o packet, reg_addr, hidden,
                                     expected_length)

find_response_requeue(buf, reg_addr, hidden, expected_length) ==
    find_response_from(buf, <<>>, reg_addr, hidden, expected_length)

\* find_response on buffer buf: what it returns or raises, and the
\* self.buffer it leaves.  A packet of exactly 4 bytes passes the length
\* test and packet[4] is then out of range.
RECURSIVE find_response(_, _, _, _)
find_response(buf, reg_addr, hidden, expected_length) ==
    IF Len(buf) = 0
    THEN [exc |-> "none", found |-> FALSE, packet |-> <<>>, buffer |-> buf]
    ELSE LET packet == find_packet(buf)[1]
             rest == find_packet(buf)[2]
         IN  IF Len(packet) < 4
             THEN [exc |-> "none", found |-> FALSE, packet |-> <<>>, buffer |-> rest]
             ELSE IF Len(packet) < 5
             THEN [exc |-> "IndexError", found |-> FALSE, packet |-> <<>>,
                   buffer |-> rest]
             ELSE IF response_matches(packet, reg_addr, hidden, expected_length)
             THEN [exc |-> "none", found |-> TRUE, packet |-> packet, buffer |-> rest]
             ELSE find_response(rest, reg_addr, hidden, expected_length)

---------------------------------------------------------------------------
(* Codec harness: inputs are drawn in the initial state, the actions apply *)
(* the codec's functions to them.                                          *)

MaxPieces == 3
MaxCarves == 4
LongPayloadLen == 254

\* The frame construct_packet returns for arguments it accepts.
Frame(packet_type, address, payload) == construct_packet(packet_type, address, payload).val

\* Well-formed valid frames: a read request, a single-register response,
\* a response whose payload holds the bytes "snp", a batch of two registers.
CodecFrames ==
    { Frame(0, 0, <<>>),
      Frame(128, 85, <<0, 0, 0, 1>>),
      Frame(128, 0, <<115, 110, 112, 0>>),
      Frame(136, 86, <<0, 1, 0, 2, 0, 3, 0, 4>>) }

\* Byte runs that are no frame: noise, a cut preamble, a bare preamble.
CodecNoise == { <<7>>, <<115, 110>>, get_preamble }

CodecPieces == CodecFrames \cup CodecNoise

SeqsUpTo(S, n) == UNION { [1..k -> S] : k \in 0..n }

Rep(n, b) == [i \in 1..n |-> b]

\* The largest data_length construct_packet_type accepts: a batch of 15
\* registers of 4 bytes.
MaxBatchLength == 15

BuildPayloads ==
    { Rep(n, b) : n \in {0, 4, 4 * MaxBatchLength, LongPayloadLen - 1, LongPayloadLen},
                  b \in {0, 1, 255} }

BuildArgs == {0, 128, 130, 255} \X {0, 85, 255} \X BuildPayloads

NotBuilt == [exc |-> "pending", val |-> <<>>]
NotVerified == [done |-> FALSE, val |-> FALSE]

DriverIdle ==
    /\ buffer = <<>>
    /\ rx = <<>>
    /\ pc = "off"
    /\ call = [op |-> "none", reg_addr |-> 0, hidden |-> FALSE]
    /\ sent = <<>>
    /\ elapsed = 0
    /\ result = [status |-> "none", payload |-> <<>>]
    /\ reply = <<>>
    /\ gen = [state |-> "none", num_packets |-> -1, received_packets |-> 0, exc |-> "none",
              flush_buffer_on_start |-> "omitted"]
    /\ yielded = <<>>
    /\ arrived = <<>>

CarveInit ==
    /\ ctest = "carve"
    /\ cframes \in SeqsUpTo(CodecPieces, MaxPieces)
    /\ cbuf = Concat(cframes)
    /\ cout = <<>>
    /\ cargs = <<0, 0, <<>>>>
    /\ built = NotBuilt
    /\ verified = NotVerified

BuildInit ==
    /\ ctest = "build"
    /\ cframes = <<>>
    /\ cbuf = <<>>
    /\ cout = <<>>
    /\ cargs \in BuildArgs
    /\ built = NotBuilt
    /\ verified = NotVerified

\* Inputs of get_payload: valid frames of 7, 11 and 15 bytes, the same
\* frames with the last checksum byte off by one or the checksum bytes
\* swapped, and a preamble that is no frame.
SwapChecksum(frame) ==
    [frame EXCEPT ![Len(frame) - 1] = frame[Len(frame)],
                  ![Len(frame)] = frame[Len(frame) - 1]]

OffByOne(frame) == [frame EXCEPT ![Len(frame)] = (frame[Len(frame)] + 1) % 256]

PayloadFrames ==
    LET valid == { Frame(0, 0, <<>>), Frame(128, 85, <<1, 2, 3, 4>>),
                   Frame(130, 1, <<255, 0, 255, 0>>),
                   Frame(200, 86, <<0, 1, 0, 2, 0, 3, 0, 4>>) }
    IN  valid \cup { OffByOne(f) : f \in valid } \cup { SwapChecksum(f) : f \in valid }
        \cup { get_preamble }

PayloadInit ==
    /\ ctest = "payload"
    /\ cframes = <<>>
    /\ cbuf \in PayloadFrames
    /\ cout = <<>>
    /\ cargs = <<0, 0, <<>>>>
    /\ built = NotBuilt
    /\ verified = NotVerified

\* Inputs of check_packet: frames with every combination of the type
\* bits, for data_length up to MaxCheckLen and 15, in every length
\* 7 + 4n up to 7 + 4 * MaxCheckLen, and packets shorter than a type byte.
MaxCheckLen == 3

CheckTypes ==
    { construct_packet_type(hd, ib, dl, hi, cf).val :
        hd \in BOOLEAN, ib \in BOOLEAN, dl \in (0..MaxCheckLen) \cup {15},
        hi \in BOOLEAN, cf \in BOOLEAN }

CheckFrames ==
    { Frame(t, 0, Rep(4 * n, 0)) : t \in CheckTypes, n \in 0..MaxCheckLen }
    \cup { <<115, 110>>, get_preamble }

CheckInit ==
    /\ ctest = "check"
    /\ cframes = <<>>
    /\ cbuf \in CheckFrames
    /\ cout = <<>>
    /\ cargs = <<0, 0, <<>>>>
    /\ built = NotBuilt
    /\ verified = NotVerified

\* Arguments of construct_packet_type.
MaxDataLength == 17

TypeInit ==
    /\ ctest = "type"
    /\ cframes = <<>>
    /\ cbuf = <<>>
    /\ cout = <<>>
    /\ cargs \in BOOLEAN \X BOOLEAN \X (0..MaxDataLength) \X BOOLEAN \X BOOLEAN
    /\ built = NotBuilt
    /\ verified = NotVerified

(***************************************************************************)
(* The register directory RslSvdParser builds from um7.svd.  The data file *)
(* is read here through the accessors generated from it: one property per  *)
(* register, named after the register, with its address and access mode.   *)
(***************************************************************************)

\* self.cregs: the registers whose name holds CREG.
cregs ==
    << [name |-> "CREG_COM_SETTINGS", address |-> 0, access |-> "read-write"],
       [name |-> "CREG_COM_RATES1", address |-> 1, access |-> "read-write"],
       [name |-> "CREG_COM_RATES2", address |-> 2, access |-> "read-write"],
       [name |-> "CREG_COM_RATES3", address |-> 3, access |-> "read-write"],
       [name |-> "CREG_COM_RATES4", address |-> 4, access |-> "read-write"],
       [name |-> "CREG_COM_RATES5", address |-> 5, access |-> "read-write"],
       [name |-> "CREG_COM_RATES6", address |-> 6, access |-> "read-write"],
       [name |-> "CREG_COM_RATES7", address |-> 7, access |-> "read-write"],
       [name |-> "CREG_MISC_SETTINGS", address |-> 8, access |-> "read-write"],
       [name |-> "CREG_HOME_NORTH", address |-> 9, access |-> "read-write"],
       [name |-> "CREG_HOME_EAST", address |-> 10, access |-> "read-write"],
       [name |-> "CREG_HOME_UP", address |-> 11, access |-> "read-write"],
       [name |-> "CREG_GYRO_TRIM_X", address |-> 12, access |-> "read-write"],
       [name |-> "CREG_GYRO_TRIM_Y", address |-> 13, access |-> "read-write"],
       [name |-> "CREG_GYRO_TRIM_Z", address |-> 14, access |-> "read-write"],
       [name |-> "CREG_MAG_CAL1_1", address |-> 15, access |-> "read-write"],
       [name |-> "CREG_MAG_1_CAL1_2", address |-> 16, access |-> "read-write"],
       [name |-> "CREG_MAG_CAL1_3", address |-> 17, access |-> "read-write"],
       [name |-> "CREG_MAG_CAL2_1", address |-> 18, access |-> "read-write"],
       [name |-> "CREG_MAG_CAL2_2", address |-> 19, access |-> "read-write"],
       [name |-> "CREG_MAG_CAL2_3", address |-> 20, access |-> "read-write"],
       [name |-> "CREG_MAG_CAL3_1", address |-> 21, access |-> "read-write"],
       [name |-> "CREG_MAG_CAL3_2", address |-> 22, access |-> "read-write"],
       [name |-> "CREG_MAG_CAL3_3", address |-> 100, access |-> "read-write"],
       [name |-> "CREG_MAG_BIAS_X", address |-> 24, access |-> "read-write"],
       [name |-> "CREG_MAG_1_BIAS_Y", address |-> 25, access |-> "read-write"],
       [name |-> "CREG_MAG_BIAS_Z", address |-> 26, access |-> "read-write"],
       [name |-> "CREG_ACCEL_CAL1_1", address |-> 27, access |-> "read-write"],
       [name |-> "CREG_ACCEL_CAL1_2", address |-> 28, access |-> "read-write"],
       [name |-> "CREG_ACCEL_CAL1_3", address |-> 29, access |-> "read-write"],
       [name |-> "CREG_ACCEL_CAL2_1", address |-> 30, access |-> "read-write"],
       [name |-> "CREG_ACCEL_CAL2_2", address |-> 31, access |-> "read-write"],
       [name |-> "CREG_ACCEL_CAL2_3", address |-> 32, access |-> "read-write"],
       [name |-> "CREG_ACCEL_CAL3_1", address |-> 33, access |-> "read-write"],
       [name |-> "CREG_ACCEL_CAL3_2", address |-> 34, access |-> "read-write"],
       [name |-> "CREG_ACCEL_CAL3_3", address |-> 35, access |-> "read-write"],
       [name |-> "CREG_ACCEL_BIAS_X", address |-> 36, access |-> "read-write"],
       [name |-> "CREG_ACCEL_BIAS_Y", address |-> 37, access |-> "read-write"],
       [name |-> "CREG_ACCEL_BIAS_Z", address |-> 38, access |-> "read-write"] >>

\* self.dregs: the registers whose name holds DREG.
dregs ==
    << [name |-> "DREG_HEALTH", address |-> 85, access |-> "read-only"],
       [name |-> "DREG_GYRO_RAW_XY", address |-> 86, access |-> "read-only"],
       [name |-> "DREG_GYRO_RAW_Z", address |-> 87, access |-> "read-only"],
       [name |-> "DREG_GYRO_RAW_TIME", address |-> 88, access |-> "read-only"],
       [name |-> "DREG_ACCEL_RAW_XY", address |-> 89, access |-> "read-only"],
       [name |-> "DREG_ACCEL_RAW_Z", address |-> 90, access |-> "read-only"],
       [name |-> "DREG_ACCEL_RAW_TIME", address |-> 91, access |-> "read-only"],
       [name |-> "DREG_MAG_RAW_XY", address |-> 92, access |-> "read-only"],
       [name |-> "DREG_MAG_RAW_Z", address |-> 93, access |-> "read-only"],
       [name |-> "DREG_MAG_RAW_TIME", address |-> 94, access |-> "read-only"],
       [name |-> "DREG_TEMPERATURE", address |-> 95, access |-> "read-only"],
       [name |-> "DREG_TEMPERATURE_TIME", address |-> 96, access |-> "read-only"],
       [name |-> "DREG_GYRO_PROC_X", address |-> 97, access |-> "read-only"],
       [name |-> "DREG_GYRO_PROC_Y", address |-> 98, access |-> "read-only"],
       [name |-> "DREG_GYRO_PROC_Z", address |-> 99, access |-> "read-only"],
       [name |-> "DREG_GYRO_PROC_TIME", address |-> 100, access |-> "read-only"],
       [name |-> "DREG_ACCEL_PROC_X", address |-> 101, access |-> "read-only"],
       [name |-> "DREG_ACCEL_PROC_Y", address |-> 102, access |-> "read-only"],
       [name |-> "DREG_ACCEL_PROC_Z", address |-> 103, access |-> "read-only"],
       [name |-> "DREG_ACCEL_PROC_TIME", address |-> 104, access |-> "read-only"],
       [name |-> "DREG_MAG_PROC_X", address |-> 105, access |-> "read-only"],
       [name |-> "DREG_MAG_PROC_Y", address |-> 106, access |-> "read-only"],
       [name |-> "DREG_MAG_PROC_Z", address |-> 107, access |-> "read-only"],
       [name |-> "DREG_MAG_PROC_TIME", address |-> 108, access |-> "read-only"],
       [name |-> "DREG_QUAT_AB", address |-> 109, access |-> "read-only"],
       [name |-> "DREG_QUAT_CD", address |-> 110, access |-> "read-only"],
       [name |-> "DREG_QUAT_TIME", address |-> 111, access |-> "read-only"],
       [name |-> "DREG_EULER_PHI_THETA", address |-> 112, access |-> "read-only"],
       [name |-> "DREG_EULER_PSI", address |-> 113, access |-> "read-only"],
       [name |-> "DREG_EULER_PHI_THETA_DOT", address |-> 114, access |-> "read-only"],
       [name |-> "DREG_EULER_PSI_DOT", address |-> 115, access |-> "read-only"],
       [name |-> "DREG_EULER_TIME", address |-> 116, access |-> "read-only"],
       [name |-> "DREG_POSITION_NORTH", address |-> 117, access |-> "read-only"],
       [name |-> "DREG_POSITION_EAST", address |-> 118, access |-> "read-only"],
       [name |-> "DREG_POSITION_UP", address |-> 119, access |-> "read-only"],
       [name |-> "DREG_POSITION_TIME", address |-> 120, access |-> "read-only"],
       [name |-> "DREG_VELOCITY_NORTH", address |-> 121, access |-> "read-only"],
       [name |-> "DREG_VELOCITY_EAST", address |-> 122, access |-> "read-only"],
       [name |-> "DREG_VELOCITY_UP", address |-> 123, access |-> "read-only"],
       [name |-> "DREG_VELOCITY_TIME", address |-> 124, access |-> "read-only"],
       [name |-> "DREG_GPS_LATITUDE", address |-> 125, access |-> "read-only"],
       [name |-> "DREG_GPS_LONGITUDE", address |-> 126, access |-> "read-only"],
       [name |-> "DREG_GPS_ALTITUDE", address |-> 127, access |-> "read-only"],
       [name |-> "DREG_GPS_COURSE", address |-> 128, access |-> "read-only"],
       [name |-> "DREG_GPS_SPEED", address |-> 129, access |-> "read-only"],
       [name |-> "DREG_GPS_TIME", address |-> 130, access |-> "read-only"],
       [name |-> "DREG_GPS_SAT_1_2", address |-> 131, access |-> "read-only"],
       [name |-> "DREG_GPS_SAT_3_4", address |-> 132, access |-> "read-only"],
       [name |-> "DREG_GPS_SAT_5_6", address |-> 133, access |-> "read-only"],
       [name |-> "DREG_GPS_SAT_7_8", address |-> 134, access |-> "read-only"],
       [name |-> "DREG_GPS_SAT_9_10", address |-> 135, access |-> "read-only"],
       [name |-> "DREG_GPS_SAT_11_12", address |-> 136, access |-> "read-only"],
       [name |-> "DREG_GYRO_BIAS_X", address |-> 137, access |-> "read-only"],
       [name |-> "DREG_GYRO_BIAS_Y", address |-> 138, access |-> "read-only"],
       [name |-> "DREG_GYRO_BIAS_Z", address |-> 139, access |-> "read-only"] >>

\* self.commands: the registers at addresses from 0xAA on.
commands ==
    << [name |-> "GET_FW_REVISION", address |-> 170, access |-> "read-only"],
       [name |-> "FLASH_COMMIT", address |-> 171, access |-> "write-only"],
       [name |-> "RESET_TO_FACTORY", address |-> 172, access |-> "write-only"],
       [name |-> "ZERO_GYROS", address |-> 173, access |-> "write-only"],
       [name |-> "SET_HOME_POSITION", address |-> 174, access |-> "write-only"],
       [name |-> "SET_MAG_REFERENCE", address |-> 176, access |-> "write-only"],
       [name |-> "CALIBRATE_ACCELEROMETERS", address |-> 177, access |-> "write-only"],
       [name |-> "RESET_EKF", address |-> 179, access |-> "write-only"] >>

\* self.hidden_regs: the registers of UM7_HIDDEN_REGISTER_MAP.
hidden_regs ==
    << [name |-> "HIDDEN_GYRO_VARIANCE", address |-> 0, access |-> "read-write"],
       [name |-> "HIDDEN_ACCEL_VARIANCE", address |-> 1, access |-> "read-write"] >>

\* self.regs = self.cregs + self.dregs + self.commands
regs == cregs \o dregs \o commands

\* Python's None in the place of a register.
None == [name |-> "None", address |-> -1, access |-> "None"]

\* Mutant: the first register of the directory is returned when one fits.
find_by_head(registers, prop, value) ==
    IF prop \notin {"name", "address"} THEN Raise("NotImplementedError")
    ELSE LET fits(x) == IF prop = "name" THEN x.name = value ELSE x.address = value
             hits == {i \in 1..Len(registers) : fits(registers[i])}
         IN  IF hits = {} THEN Return(<<None>>) ELSE Return(<<registers[1]>>)

\* find_by(registers, **kw): the first register whose property has the
\* value, None when there is none.
find_by(registers, prop, value) ==
    IF prop \notin {"name", "address"} THEN Raise("NotImplementedError")
    ELSE LET fits(x) == IF prop = "name" THEN x.name = value ELSE x.address = value
             hits == {i \in 1..Len(registers) : fits(registers[i])}
         IN  IF hits = {} THEN Return(<<None>>)
             ELSE Return(<<registers[CHOOSE i \in hits : \A j \in hits : i <= j]>>)

find_register_by(prop, value) == find_by(regs, prop, value)

find_hidden_register_by(prop, value) == find_by(hidden_regs, prop, value)

\* Lookups to try: each directory, every address a byte can hold.
LookupInit ==
    /\ ctest = "lookup"
    /\ cframes = <<>>
    /\ cbuf = <<>>
    /\ cout = <<>>
    /\ cargs \in {"main", "hidden"} \X (0..255)
    /\ built = NotBuilt
    /\ verified = NotVerified

\* Type bytes to take apart: every value of a byte.
ByteInit ==
    /\ ctest = "byte"
    /\ cframes = <<>>
    /\ cbuf = <<>>
    /\ cout = <<>>
    /\ cargs \in { <<b>> : b \in 0..255 }
    /\ built = NotBuilt
    /\ verified = NotVerified

CodecInit ==
    (CarveInit \/ BuildInit \/ PayloadInit \/ CheckInit \/ TypeInit \/ LookupInit
     \/ ByteInit)
    /\ DriverIdle

\* ok, payload = get_payload(packet)
GetPayload ==
    /\ ctest = "payload"
    /\ built = NotBuilt
    /\ built' = get_payload(cbuf)
    /\ UNCHANGED <<ctest, cframes, cbuf, cout, cargs, verified>>
    /\ UNCHANGED driverVars

\* check_packet(packet); packet[3] of a packet shorter than 4 bytes is out
\* of range.
CheckPacket ==
    /\ ctest = "check"
    /\ built = NotBuilt
    /\ built' = IF Len(cbuf) < 4 THEN Raise("IndexError")
                ELSE Return(<<check_packet(cbuf)>>)
    /\ UNCHANGED <<ctest, cframes, cbuf, cout, cargs, verified>>
    /\ UNCHANGED driverVars

\* construct_packet_type(has_data, is_batch, data_length, hidden, command_failed)
ConstructPacketType ==
    /\ ctest = "type"
    /\ built = NotBuilt
    /\ built' = LET made == construct_packet_type(cargs[1], cargs[2], cargs[3],
                                                  cargs[4], cargs[5])
                IN  IF made.exc # "none" THEN Raise(made.exc) ELSE Return(<<made.val>>)
    /\ UNCHANGED <<ctest, cframes, cbuf, cout, cargs, verified>>
    /\ UNCHANGED driverVars

\* get_packet_type(b): of the byte construct_packet_type returned, or of
\* the byte given.
GetPacketType ==
    /\ cout = <<>>
    /\ \/ ctest = "type" /\ built.exc = "none"
          /\ cout' = <<get_packet_type(built.val[1])>>
       \/ ctest = "byte"
          /\ cout' = <<get_packet_type(cargs[1])>>
    /\ UNCHANGED <<ctest, cframes, cbuf, cargs, built, verified>>
    /\ UNCHANGED driverVars

\* construct_packet_type(*fields) for the five values get_packet_type
\* returned.
ConstructFromFields ==
    /\ ctest = "byte"
    /\ cout # <<>>
    /\ built = NotBuilt
    /\ built' = LET made == construct_packet_type(cout[1][1], cout[1][2], cout[1][3],
                                                  cout[1][4], cout[1][5])
                IN  IF made.exc # "none" THEN Raise(made.exc) ELSE Return(<<made.val>>)
    /\ UNCHANGED <<ctest, cframes, cbuf, cout, cargs, verified>>
    /\ UNCHANGED driverVars

\* packet, buffer = find_packet(buffer)
Carve ==
    /\ ctest = "carve"
    /\ Len(cout) < MaxCarves
    /\ cout' = Append(cout, find_packet(cbuf)[1])
    /\ cbuf' = find_packet(cbuf)[2]
    /\ UNCHANGED <<ctest, cframes, cargs, built, verified>>
    /\ UNCHANGED driverVars

ConstructPacket ==
    /\ ctest = "build"
    /\ built = NotBuilt
    /\ built' = construct_packet(cargs[1], cargs[2], cargs[3])
    /\ UNCHANGED <<ctest, cframes, cbuf, cout, cargs, verified>>
    /\ UNCHANGED driverVars

VerifyChecksum ==
    /\ ctest = "build"
    /\ built.exc = "none"
    /\ ~verified.done
    /\ verified' = [done |-> TRUE, val |-> verify_checksum(built.val)]
    /\ UNCHANGED <<ctest, cframes, cbuf, cout, cargs, built>>
    /\ UNCHANGED driverVars

\* r = find_register_by(address=a), or find_hidden_register_by(address=a)
FindByAddress ==
    /\ ctest = "lookup"
    /\ built = NotBuilt
    /\ built' = IF cargs[1] = "main" THEN find_register_by("address", cargs[2])
                ELSE find_hidden_register_by("address", cargs[2])
    /\ UNCHANGED <<ctest, cframes, cbuf, cout, cargs, verified>>
    /\ UNCHANGED driverVars

\* find_register_by(name=r.name) for the register r found; r.name of None
\* raises AttributeError.
FindByName ==
    /\ ctest = "lookup"
    /\ built # NotBuilt
    /\ cout = <<>>
    /\ cout' = IF built.val[1] = None THEN <<Raise("AttributeError")>>
               ELSE IF cargs[1] = "main"
                    THEN <<find_register_by("name", built.val[1].name)>>
                    ELSE <<find_hidden_register_by("name", built.val[1].name)>>
    /\ UNCHANGED <<ctest, cframes, cbuf, cargs, built, verified>>
    /\ UNCHANGED driverVars

CodecNext ==
    \/ Carve
    \/ ConstructPacket
    \/ VerifyChecksum
    \/ GetPayload
    \/ CheckPacket
    \/ ConstructPacketType
    \/ FindByAddress
    \/ FindByName
    \/ GetPacketType
    \/ ConstructFromFields

CodecSpec == CodecInit /\ [][CodecNext]_vars

---------------------------------------------------------------------------
(* The driver on a line: register transactions over the shared buffer.     *)
(* A call runs from one blocking port.read to the next in one step.  The   *)
(* device's bytes are drawn in the initial state; when and in which pieces *)
(* port.read hands them over is left open.                                 *)

MaxFrames == 2
RetryWindow == 2

\* A frame with its last checksum byte off by one.
Corrupt(frame) ==
    [frame EXCEPT ![Len(frame)] = (frame[Len(frame)] + 1) % 256]

\* What the device may send: responses for register 0 (plain, hidden,
\* command_failed, checksum-corrupt, length not matching data_length), a
\* health broadcast, write acknowledgements (plain, hidden), a bare
\* preamble and a preamble with one byte.
LineFrames ==
    { Frame(128, 0, <<0, 0, 0, 1>>),
      Frame(130, 0, <<0, 0, 0, 2>>),
      Frame(129, 0, <<0, 0, 0, 3>>),
      Corrupt(Frame(128, 0, <<0, 0, 0, 4>>)),
      Frame(136, 0, <<0, 0, 0, 5>>),
      Frame(128, 85, <<0, 0, 0, 6>>),
      Frame(0, 0, <<>>),
      Frame(2, 0, <<>>),
      get_preamble,
      get_preamble \o <<128>> }

\* The line carries up to MaxFrames of these and, possibly, the preamble
\* that starts the frame after them.
Streams(frames) == { Concat(frames) \o tail : tail \in {<<>>, get_preamble} }

LineStreams == UNION { Streams(fs) : fs \in SeqsUpTo(LineFrames, MaxFrames) }

\* How many bytes one port.read(buffer_size) hands over: nothing, a cut
\* inside the next preamble, a cut behind the address byte, the length of
\* a single-register frame, or all that is on the line, up to buffer_size.
ReadCounts == { Min(n, Len(rx)) : n \in {0, 2, 5, 11, buffer_size} }

RegAddrs == {0}
RegValues == {258}

NoCall == [op |-> "none", reg_addr |-> 0, hidden |-> FALSE]
NoResult == [status |-> "pending", payload |-> <<>>]
NoGenerator ==
    [state |-> "none", num_packets |-> -1, received_packets |-> 0, exc |-> "none",
     flush_buffer_on_start |-> "omitted"]

CodecIdle ==
    /\ ctest = "none"
    /\ cframes = <<>>
    /\ cbuf = <<>>
    /\ cout = <<>>
    /\ cargs = <<0, 0, <<>>>>
    /\ built = NotBuilt
    /\ verified = NotVerified

Init ==
    /\ CodecIdle
    /\ buffer = <<>>
    /\ rx \in LineStreams
    /\ arrived = <<>>
    /\ pc = "idle"
    /\ call = NoCall
    /\ sent = <<>>
    /\ elapsed = 0
    /\ result = NoResult
    /\ reply = <<>>
    /\ gen = NoGenerator
    /\ yielded = <<>>

\* send(packet) of send_recv: the frame goes out; the call then blocks in recv.
ReadRegister(reg_addr, hidden) ==
    /\ pc = "idle"
    /\ LET packet_type == construct_packet_type(FALSE, FALSE, 0, hidden, FALSE).val
           packet_to_send == construct_packet(packet_type, reg_addr, <<>>).val
       IN  sent' = <<packet_to_send>>
    /\ call' = [op |-> "read", reg_addr |-> reg_addr, hidden |-> hidden]
    /\ pc' = "read_first"
    /\ elapsed' = 0
    /\ result' = NoResult
    /\ reply' = <<>>
    /\ UNCHANGED <<buffer, rx, arrived>>
    /\ UNCHANGED codecVars
    /\ UNCHANGED bcastVars

\* int.to_bytes(reg_value, byteorder='big', length=4)
ToBytes4(n) ==
    <<(n \div 16777216) % 256, (n \div 65536) % 256, (n \div 256) % 256, n % 256>>

WriteRegister(reg_addr, reg_value, hidden) ==
    /\ pc = "idle"
    /\ LET packet_type == construct_packet_type(TRUE, FALSE, 0, hidden, FALSE).val
           payload == ToBytes4(reg_value)
           packet_to_send == construct_packet(packet_type, reg_addr, payload).val
       IN  sent' = <<packet_to_send>>
    /\ call' = [op |-> "write", reg_addr |-> reg_addr, hidden |-> hidden]
    /\ pc' = "write_recv"
    /\ elapsed' = 0
    /\ result' = NoResult
    /\ reply' = <<>>
    /\ UNCHANGED <<buffer, rx, arrived>>
    /\ UNCHANGED codecVars
    /\ UNCHANGED bcastVars

\* The call returns to its caller.
Returns(status, payload) ==
    /\ result' = [status |-> status, payload |-> payload]
    /\ pc' = "idle"

\* Lines 246-250 and 256-260: the matched frame is checked and its payload
\* returned; check_packet's verdict is computed and not used.
ReturnPayload(sensor_reply) ==
    LET checked == check_packet(sensor_reply)
        got == get_payload(sensor_reply)
    IN  /\ reply' = sensor_reply
        /\ IF got.exc # "none"
           THEN Returns(got.exc, <<>>)
           ELSE Returns("ok", got.val)

\* Mutant: the retry waits for more bytes without sending the request again.
RetryOrGiveUp_no_resend(now) ==
    /\ elapsed' = now
    /\ reply' = <<>>
    /\ IF now < RetryWindow
       THEN /\ sent' = sent
            /\ pc' = "read_retry"
            /\ result' = result
       ELSE /\ sent' = sent
            /\ Returns("false", <<>>)

\* The test of the retry loop, `monotonic() - t < 0.2', read with the clock
\* at `now': inside the window the request is sent again and the call
\* blocks in recv, outside the call returns (False, bytes()).
RetryOrGiveUp(now) ==
    /\ elapsed' = now
    /\ reply' = <<>>
    /\ IF now < RetryWindow
       THEN /\ sent' = Append(sent, sent[1])
            /\ pc' = "read_retry"
            /\ result' = result
       ELSE /\ sent' = sent
            /\ Returns("false", <<>>)

\* recv in the first send_recv of read_register, and what follows up to
\* the next blocking read.  port.read hands over the next k bytes; recv
\* reads again as long as the buffer is empty.
ReadFirstRecv ==
    /\ pc = "read_first"
    /\ \E k \in ReadCounts :
        LET buf == buffer \o SubSeq(rx, 1, k)
            found == find_response(buf, call.reg_addr, call.hidden, 11)
        IN  /\ rx' = SubSeq(rx, k + 1, Len(rx))
            /\ IF Len(buf) = 0
               THEN /\ buffer' = buf
                    /\ UNCHANGED <<pc, sent, elapsed, result, reply>>
               ELSE /\ buffer' = found.buffer
                    /\ IF found.exc # "none"
                       THEN /\ Returns(found.exc, <<>>)
                            /\ UNCHANGED <<sent, elapsed, reply>>
                       ELSE IF found.found
                       THEN /\ ReturnPayload(found.packet)
                            /\ UNCHANGED <<sent, elapsed>>
                       ELSE \E now \in 0..RetryWindow : RetryOrGiveUp(now)
    /\ UNCHANGED <<call, arrived>>
    /\ UNCHANGED codecVars
    /\ UNCHANGED bcastVars

\* recv in the send_recv of the retry loop, and what follows.  A blocking
\* read takes time: the clock has moved on when the loop test is read again.
ReadRetryRecv ==
    /\ pc = "read_retry"
    /\ \E k \in ReadCounts :
        LET buf == buffer \o SubSeq(rx, 1, k)
            found == find_response(buf, call.reg_addr, call.hidden, 11)
        IN  /\ rx' = SubSeq(rx, k + 1, Len(rx))
            /\ IF Len(buf) = 0
               THEN /\ buffer' = buf
                    /\ UNCHANGED <<pc, sent, elapsed, result, reply>>
               ELSE /\ buffer' = found.buffer
                    /\ IF found.exc # "none"
                       THEN /\ Returns(found.exc, <<>>)
                            /\ UNCHANGED <<sent, elapsed, reply>>
                       ELSE IF found.found /\ Len(found.packet) > 7
                       THEN /\ ReturnPayload(found.packet)
                            /\ UNCHANGED <<sent, elapsed>>
                       ELSE \E now \in (elapsed + 1)..RetryWindow : RetryOrGiveUp(now)
    /\ UNCHANGED <<call, arrived>>
    /\ UNCHANGED codecVars
    /\ UNCHANGED bcastVars

\* Mutant: without a match the request is written again and the call
\* waits for more bytes.
WriteRecv_resend ==
    /\ pc = "write_recv"
    /\ \E k \in ReadCounts :
        LET buf == buffer \o SubSeq(rx, 1, k)
            found == find_response(buf, call.reg_addr, FALSE, 7)
        IN  /\ rx' = SubSeq(rx, k + 1, Len(rx))
            /\ IF Len(buf) = 0
               THEN /\ buffer' = buf
                    /\ UNCHANGED <<pc, result, reply, sent>>
               ELSE /\ buffer' = found.buffer
                    /\ IF found.exc # "none"
                       THEN /\ Returns(found.exc, <<>>)
                            /\ UNCHANGED <<reply, sent>>
                       ELSE IF found.found
                       THEN /\ ReturnPayload(found.packet)
                            /\ UNCHANGED sent
                       ELSE IF Len(sent) < 2
                       THEN /\ sent' = Append(sent, sent[1])
                            /\ UNCHANGED <<pc, result, reply>>
                       ELSE /\ Returns("none", <<>>)
                            /\ UNCHANGED <<reply, sent>>
    /\ UNCHANGED <<call, elapsed, arrived>>
    /\ UNCHANGED codecVars
    /\ UNCHANGED bcastVars

\* recv in the send_recv of write_register, and what follows: one match
\* attempt for (reg_addr, hidden = False, length 7); without a match the
\* function falls off its end and returns None.
WriteRecv ==
    /\ pc = "write_recv"
    /\ \E k \in ReadCounts :
        LET buf == buffer \o SubSeq(rx, 1, k)
            found == find_response(buf, call.reg_addr, FALSE, 7)
        IN  /\ rx' = SubSeq(rx, k + 1, Len(rx))
            /\ IF Len(buf) = 0
               THEN /\ buffer' = buf
                    /\ UNCHANGED <<pc, result, reply>>
               ELSE /\ buffer' = found.buffer
                    /\ IF found.exc # "none"
                       THEN /\ Returns(found.exc, <<>>)
                            /\ UNCHANGED reply
                       ELSE IF found.found
                       THEN ReturnPayload(found.packet)
                       ELSE /\ Returns("none", <<>>)
                            /\ UNCHANGED reply
    /\ UNCHANGED <<call, sent, elapsed, arrived>>
    /\ UNCHANGED codecVars
    /\ UNCHANGED bcastVars

CallRead == \E a \in RegAddrs, h \in BOOLEAN : ReadRegister(a, h)
CallWrite == \E a \in RegAddrs, v \in RegValues, h \in BOOLEAN : WriteRegister(a, v, h)

Next == CallRead \/ CallWrite \/ ReadFirstRecv \/ ReadRetryRecv \/ WriteRecv

Spec == Init /\ [][Next]_vars

\* A call that can run on does run on: the interpreter keeps executing the
\* blocked call, and port.read hands over bytes that are on the line.
\* Nothing obliges the device to send.
FairSpec ==
    Spec /\ WF_vars(ReadFirstRecv) /\ WF_vars(ReadRetryRecv) /\ WF_vars(WriteRecv)

---------------------------------------------------------------------------
(* Claims about the frame codec, checked under CodecSpec *)

\* The carved buffer is exactly two well-formed valid frames, back to back.
TwoFrames ==
    /\ ctest = "carve"
    /\ Len(cframes) = 2
    /\ cframes[1] \in CodecFrames
    /\ cframes[2] \in CodecFrames

\* The preamble occurs in frame f at its start only.
NoInnerPreamble(f) == PyFind(SliceFrom(f, 1), get_preamble) = -1

NoPreamble(buf) == PyFind(buf, get_preamble) = -1

\* The buffer holds a preamble and no further preamble 3 or more bytes
\* after the start of the first.
NoSecondPreamble(buf) ==
    /\ ~NoPreamble(buf)
    /\ NoPreamble(SliceFrom(buf, PyFind(buf, get_preamble) + 3))

\* C12 as stated: find_packet returns (empty frame, empty remainder)
\* whenever either preamble search fails: with no preamble in the buffer,
\* and with a first preamble but no further one.
C12_FailedSearchGivesEmpty ==
    [][ (ctest = "carve" /\ (NoPreamble(cbuf) \/ NoSecondPreamble(cbuf)))
        => (cout' = Append(cout, <<>>) /\ cbuf' = <<>>) ]_vars

\* C13 as stated: on a buffer with no preamble find_packet returns an
\* empty frame together with the same, unchanged buffer.
C13_NoPreambleKeepsBuffer ==
    [][ (ctest = "carve" /\ NoPreamble(cbuf))
        => (cout' = Append(cout, <<>>) /\ cbuf' = cbuf) ]_vars

\* C13 amended: on a buffer with no preamble find_packet returns an empty
\* frame together with an EMPTY remainder; applied again to that remainder
\* it returns the same pair, however often.
C13_NoPreambleClearsBuffer ==
    [][ (ctest = "carve" /\ NoPreamble(cbuf))
        => (cout' = Append(cout, <<>>) /\ cbuf' = <<>>) ]_vars

\* find_packet applied twice to a non-empty buffer without a preamble.
C13_Witness ==
    /\ ctest = "carve"
    /\ Len(Concat(cframes)) > 0
    /\ NoPreamble(Concat(cframes))
    /\ Len(cout) = 2
    /\ cout = <<(<<>>), (<<>>)>>
    /\ cbuf = <<>>

\* C22: get_payload(frame) returns exactly when verify_checksum(frame) is
\* true, and then the bytes at offsets 5 to len(frame) - 3; otherwise it
\* raises the checksum error and returns nothing.
C22_PayloadIffChecksum ==
    (ctest = "payload" /\ built.exc # "pending") =>
        IF verify_checksum(cbuf)
        THEN built.exc = "none" /\ built.val = SubSeq(cbuf, 6, Len(cbuf) - 2)
        ELSE built.exc = "RslException" /\ built.val = <<>>

\* get_payload has returned the 8 payload bytes of a 15-byte frame.
C22_Witness ==
    /\ ctest = "payload"
    /\ Len(cbuf) = 15
    /\ built.exc = "none"
    /\ built.val = <<0, 1, 0, 2, 0, 3, 0, 4>>

\* The fields of a type byte, by their place values.
TypeHasData(t) == t >= 128
TypeDataLength(t) == (t % 64) \div 4
TypeCommandFailed(t) == t % 2 = 1

\* The four ways in which a frame fails the structural check.
StructuralFailure(frame) ==
    LET t == frame[4]
    IN  \/ TypeCommandFailed(t)
        \/ ~TypeHasData(t) /\ Len(frame) # 7
        \/ TypeHasData(t) /\ TypeDataLength(t) = 0 /\ Len(frame) # 11
        \/ TypeHasData(t) /\ TypeDataLength(t) > 0
              /\ Len(frame) # 7 + 4 * TypeDataLength(t)

\* C23: on a frame (7 bytes or more) check_packet never raises and is
\* false exactly in the four cases of StructuralFailure, which do not
\* mention the is_batch and hidden bits.
C23_CheckPacketCases ==
    (ctest = "check" /\ built.exc # "pending" /\ Len(cbuf) >= 7) =>
        /\ built.exc = "none"
        /\ built.val[1] = ~StructuralFailure(cbuf)

\* check_packet has accepted a hidden batch frame of two registers.
C23_Witness ==
    /\ ctest = "check"
    /\ Len(cbuf) = 15
    /\ cbuf[4] = 128 + 64 + 8 + 2
    /\ built.exc = "none"
    /\ built.val = <<TRUE>>

\* C24: construct_packet_type raises exactly for data_length > 15;
\* otherwise it returns one byte with has_data in bit 7, is_batch in bit 6,
\* data_length in bits 5-2, hidden in bit 1 and command_failed in bit 0.
C24_PacketTypeBits ==
    (ctest = "type" /\ built.exc # "pending") =>
        IF cargs[3] > 15
        THEN built.exc = "RslException"
        ELSE /\ built.exc = "none"
             /\ built.val[1] \in 0..255
             /\ (built.val[1] \div 128 = 1) = cargs[1]
             /\ ((built.val[1] \div 64) % 2 = 1) = cargs[2]
             /\ (built.val[1] \div 4) % 16 = cargs[3]
             /\ ((built.val[1] \div 2) % 2 = 1) = cargs[4]
             /\ (built.val[1] % 2 = 1) = cargs[5]

\* The largest accepted data_length, with every flag set: the byte 0xFF.
C24_Witness ==
    /\ ctest = "type"
    /\ cargs = <<TRUE, TRUE, 15, TRUE, TRUE>>
    /\ built.exc = "none"
    /\ built.val = <<255>>

\* The read request for address 0x00 has been built.
ReadRequestBuilt ==
    /\ ctest = "build"
    /\ cargs = <<0, 0, <<>>>>
    /\ built.exc # "pending"

\* C25 as stated: the read request for address 0x00 (type byte 0x00, empty
\* payload) is the frame 73 6E 70 00 00 00 DD.
C25_ReadRequestBytes ==
    ReadRequestBuilt => (built.exc = "none" /\ built.val = <<115, 110, 112, 0, 0, 0, 221>>)

\* C25 amended: that frame is 73 6E 70 00 00 01 51; the checksum is the
\* sum 0x73 + 0x6E + 0x70 = 0x0151, big-endian.
C25_ReadRequestChecksum ==
    ReadRequestBuilt => (built.exc = "none" /\ built.val = <<115, 110, 112, 0, 0, 1, 81>>)

C25_Witness ==
    /\ ReadRequestBuilt
    /\ Len(built.val) = 7
    /\ verified.done

\* The sum of the bytes construct_packet puts its checksum on.
ArgsSum == 115 + 110 + 112 + cargs[1] + cargs[2] + SumBytes(cargs[3])

\* C26 as stated: when that sum exceeds 65535 construct_packet still
\* returns a frame, whose last two bytes are the sum mod 2^16, big-endian.
C26_ChecksumTruncates ==
    (ctest = "build" /\ built.exc # "pending" /\ cargs[1] <= 255 /\ cargs[2] <= 255
     /\ ArgsSum > 65535)
        => /\ built.exc = "none"
           /\ SliceFrom(built.val, -2)
                = <<(ArgsSum % 65536) \div 256, ArgsSum % 256>>

---------------------------------------------------------------------------
(* Claims about the register transactions, checked under Spec *)

HiddenBit(packet) == (packet[4] \div 2) % 2 = 1

\* s occurs in t as a run of consecutive bytes.
IsInfix(s, t) == \E i \in 0..(Len(t) - Len(s)) : SubSeq(t, i + 1, i + Len(s)) = s

IsSuffix(s, t) == Len(s) <= Len(t) /\ SubSeq(t, Len(t) - Len(s) + 1, Len(t)) = s

\* The bytes the step's port.read handed over.
Chunk == SubSeq(rx, 1, Len(rx) - Len(rx'))

\* The incomplete frame at the end of s: from the last preamble on.
TrailingFrame(s) ==
    LET hits == {i \in 0..(Len(s) - 3) : SubSeq(s, i + 1, i + 3) = get_preamble}
    IN  IF hits = {} THEN <<>>
        ELSE SliceFrom(s, CHOOSE i \in hits : \A j \in hits : j <= i)

\* C2 as stated: when find_response has processed the receive buffer, every
\* byte of the incomplete trailing frame (from the last preamble on) is
\* still in the buffer, in order, at its end.
C2_TrailingFrameKept ==
    [][ (pc \in {"read_first", "read_retry", "write_recv"} /\ Len(buffer \o Chunk) > 0)
        => IsSuffix(TrailingFrame(buffer \o Chunk), buffer') ]_vars

\* C4: read_register(addr, hidden=h) reports success only with the payload
\* of a frame of the receive buffer whose address byte is addr, whose hidden
\* bit is h and whose length is 11.
C4_ReadMatchesRequest ==
    [][ (call.op = "read" /\ pc # "idle" /\ pc' = "idle" /\ result'.status = "ok")
        => /\ reply'[5] = call.reg_addr
           /\ HiddenBit(reply') = call.hidden
           /\ Len(reply') = 11
           /\ result'.payload = SubSeq(reply', 6, 9)
           /\ IsInfix(reply', buffer \o Chunk) ]_vars

\* A hidden read that succeeded on a retry.
C4_Witness ==
    /\ call.op = "read"
    /\ call.hidden
    /\ pc = "idle"
    /\ result.status = "ok"
    /\ Len(sent) > 1

\* C5 as stated: read_register and write_register never report success on
\* a response frame for which check_packet is false.
C5_FailedCheckNoSuccess ==
    (call.op \in {"read", "write"} /\ result.status = "ok") => check_packet(reply)

\* C6 as stated: a checksum-invalid frame never surfaces from read_register
\* as an error; the exception of get_payload is the RslException of this
\* model.
C6_NoChecksumError ==
    call.op = "read" => result.status # "RslException"

\* C7 as stated: write_register(addr, value, hidden=h) reports success only
\* for a response frame with address addr, hidden bit h and length 7.
C7_WriteMatchesRequest ==
    (call.op = "write" /\ result.status = "ok")
        => /\ reply[5] = call.reg_addr
           /\ HiddenBit(reply) = call.hidden
           /\ Len(reply) = 7

\* C10 as stated: every call of read_register eventually returns.
C10_ReadReturns ==
    (call.op = "read" /\ pc # "idle") ~> (pc = "idle")

\* C11 as stated: a call of read_register or write_register that ends
\* without a matching response (sensor_reply stays empty) surfaces the
\* timeout failure to its caller, the (False, bytes()) of line 261.
C11_NoMatchIsTimeout ==
    (call.op \in {"read", "write"} /\ pc = "idle" /\ reply = <<>>)
        => result.status = "false"

\* C17: write_register writes its request frame once and makes one match
\* attempt: while the call runs and when it has returned, whatever the
\* outcome, exactly one frame has been sent, and the step in which
\* find_response runs is the step in which the call returns.
C17_WriteSendsOnce ==
    /\ [](call.op = "write" => Len(sent) = 1)
    /\ [][ (pc = "write_recv" /\ Len(buffer \o Chunk) > 0)
            => (pc' = "idle" /\ sent' = sent) ]_vars

\* A write that returned without a match.
C17_Witness ==
    /\ call.op = "write"
    /\ pc = "idle"
    /\ result.status = "none"
    /\ Len(sent) = 1

\* C18: in read_register every frame sent is the same request frame; a
\* step that enters a retry iteration (recv returned bytes, no match, the
\* loop test read inside the window) sends it exactly once more; a step
\* that returns, with a match or at the deadline, sends nothing; and no
\* iteration starts with the deadline elapsed.
C18_RetryResendsOnce ==
    /\ [](call.op = "read" => \A i \in 1..Len(sent) : sent[i] = sent[1])
    /\ [][ (call.op = "read" /\ pc \in {"read_first", "read_retry"})
            => /\ (pc' = "read_retry" /\ Len(buffer \o Chunk) > 0)
                     => (sent' = Append(sent, sent[1]) /\ elapsed' < RetryWindow)
               /\ (pc' = "idle" \/ Len(buffer \o Chunk) = 0) => sent' = sent
               /\ elapsed' >= RetryWindow => pc' = "idle" ]_vars

\* A read that retried in every slot of the window and then gave up.
C18_Witness ==
    /\ call.op = "read"
    /\ pc = "idle"
    /\ result.status = "false"
    /\ Len(sent) > 2

(***************************************************************************)
(* The broadcast decoder: recv_broadcast, a generator.  Creating it runs   *)
(* none of its body; each next() runs the body up to the next yield, the   *)
(* end of the outer loop or an exception that leaves the generator.        *)
(***************************************************************************)

\* Addresses of the register directory (the addr literals of the register
\* accessors): 0x00-0x16, 0x18-0x26, 0x55-0x8B and the command registers.
RegisterAddresses ==
    (0..22) \cup (24..38) \cup (85..139) \cup (170..174) \cup {176, 177, 179}

\* find_register_by(name=...).address, lines 387-396
health_start_addr == 85
euler_start_addr == 112
all_proc_start_addr == 97
accel_proc_start_addr == 101
mag_proc_start_addr == 105
all_raw_start_addr == 86
accel_raw_start_addr == 89
mag_raw_start_addr == 92
gyro_bias_start_addr == 137
quat_addr == 109

Yield(kind, data) == [act |-> "yield", kind |-> kind, exc |-> "none", data |-> data]
Log(kind) == [act |-> "log", kind |-> kind, exc |-> "none", data |-> <<>>]
Throw(kind, exc) == [act |-> "raise", kind |-> kind, exc |-> exc, data |-> <<>>]

\* struct 'h': a big-endian signed 16-bit word.
Int16(b) ==
    LET u == FromBytes(b)
    IN  IF u >= 32768 THEN u - 65536 ELSE u

\* struct 'I': a big-endian unsigned 32-bit word.
UInt32(b) == FromBytes(b)

\* struct 'f': a float is carried as the four bytes that encode it.
Float32(b) == [float32 |-> b]

\* raw / 91.02222 as the exact quotient: 91.02222 = 4551111 / 50000.
EulerScaleNum == 50000
EulerScaleDen == 4551111
DivEulerScale(raw) == [num |-> raw * EulerScaleNum, den |-> EulerScaleDen]

\* struct.unpack('>hhh2xf', b) for 12 bytes: three words, two pad bytes,
\* a float.
Unpack_hhh2xf(b) ==
    <<Int16(SubSeq(b, 1, 2)), Int16(SubSeq(b, 3, 4)), Int16(SubSeq(b, 5, 6)),
      Float32(SubSeq(b, 9, 12))>>

\* struct.unpack('>ffff', b) for 16 bytes.
Unpack_ffff(b) ==
    <<Float32(SubSeq(b, 1, 4)), Float32(SubSeq(b, 5, 8)),
      Float32(SubSeq(b, 9, 12)), Float32(SubSeq(b, 13, 16))>>

\* Mutant: the health word read in little-endian order.
decode_health_broadcast_le(packet) ==
    LET payload == Slice(packet, 5, -2)
        b == Slice(payload, 0, 4)
    IN  Yield("HEALTH", [health |-> UInt32(<<b[4], b[3], b[2], b[1]>>)])

\* Lines 553-556.
decode_health_broadcast(packet) ==
    LET payload == Slice(packet, 5, -2)
        health == UInt32(Slice(payload, 0, 4))
    IN  Yield("HEALTH", [health |-> health])

\* Mutant: the angle and rate words read low byte first.
decode_euler_broadcast_le(packet) ==
    LET payload == Slice(packet, 5, -2)
        a == Slice(payload, 0, 8)
        r == Slice(payload, 8, 20)
    IN  Yield("EULER",
              [roll |-> DivEulerScale(Int16(<<a[2], a[1]>>)),
               pitch |-> DivEulerScale(Int16(<<a[4], a[3]>>)),
               yaw |-> DivEulerScale(Int16(<<a[6], a[5]>>)),
               roll_rate |-> DivEulerScale(Int16(<<r[2], r[1]>>)),
               pitch_rate |-> DivEulerScale(Int16(<<r[4], r[3]>>)),
               yaw_rate |-> DivEulerScale(Int16(<<r[6], r[5]>>)),
               time_stamp |-> Float32(SubSeq(r, 9, 12))])

\* Lines 501-509: '>hhh2x' on payload[0:8], '>hhh2xf' on payload[8:20],
\* each word divided by 91.02222.
decode_euler_broadcast(packet) ==
    LET payload == Slice(packet, 5, -2)
        angles == Slice(payload, 0, 8)
        rates == Unpack_hhh2xf(Slice(payload, 8, 20))
        roll == Int16(SubSeq(angles, 1, 2))
        pitch == Int16(SubSeq(angles, 3, 4))
        yaw == Int16(SubSeq(angles, 5, 6))
    IN  Yield("EULER",
              [roll |-> DivEulerScale(roll),
               pitch |-> DivEulerScale(pitch),
               yaw |-> DivEulerScale(yaw),
               roll_rate |-> DivEulerScale(rates[1]),
               pitch_rate |-> DivEulerScale(rates[2]),
               yaw_rate |-> DivEulerScale(rates[3]),
               time_stamp |-> rates[4]])

\* Lines 518-531: the raw accelerometer, gyro and magnetometer packets,
\* '>hhh2xf' on payload[0:12].
decode_raw_broadcast(kind, packet) ==
    LET payload == Slice(packet, 5, -2)
    IN  Yield(kind, Unpack_hhh2xf(Slice(payload, 0, 12)))

\* Lines 533-546: the processed packets, '>ffff' on payload[0:16].
decode_proc_broadcast(kind, packet) ==
    LET payload == Slice(packet, 5, -2)
    IN  Yield(kind, Unpack_ffff(Slice(payload, 0, 16)))

\* Lines 481-490.
decode_all_raw_broadcast(packet) ==
    LET payload == Slice(packet, 5, -2)
    IN  Yield("ALL_RAW",
              Unpack_hhh2xf(Slice(payload, 0, 12))
              \o Unpack_hhh2xf(Slice(payload, 12, 24))
              \o Unpack_hhh2xf(Slice(payload, 24, 36))
              \o <<Float32(Slice(payload, 36, 40)), Float32(Slice(payload, 40, 44))>>)

\* Lines 492-499.
decode_all_proc_broadcast(packet) ==
    LET payload == Slice(packet, 5, -2)
    IN  Yield("ALL_PROC",
              Unpack_ffff(Slice(payload, 0, 16))
              \o Unpack_ffff(Slice(payload, 16, 32))
              \o Unpack_ffff(Slice(payload, 32, 48)))

\* q_w, q_x, q_y, q_z, q_time = struct.unpack('>hhh2xf', payload[0:12]):
\* four values for five names.
decode_quaternion_broadcast(packet) == Throw("QUAT", "ValueError")

\* UM7GyroBiasPacket(gyro_bias_x=..., ...): the dataclass has no such fields.
decode_gyro_bias_broadcast(packet) == Throw("GYRO_1_BIAS", "TypeError")

\* Mutant: a health frame is logged and not yielded.
dispatch_health_logged(packet) ==
    IF packet[5] = health_start_addr THEN Log("HEALTH")
    ELSE IF packet[5] \in RegisterAddresses THEN Log("BROADCAST ERROR")
    ELSE Throw("BROADCAST ERROR", "AttributeError")

\* Lines 379-479 for a packet longer than 7 bytes: checksum_ok and
\* packet_type_check_ok are computed and logged, the branch is chosen by
\* address and length alone.
dispatch(packet) ==
    LET packet_addr == packet[5]
        start_reg_found == packet_addr \in RegisterAddresses
        checksum_ok == verify_checksum(packet)
        packet_type_check_ok == check_packet(packet)
        n == Len(packet)
    IN  IF packet_addr = health_start_addr
            THEN IF n = 11 THEN decode_health_broadcast(packet) ELSE Log("HEALTH")
        ELSE IF packet_addr = euler_start_addr
            THEN IF n = 27 THEN decode_euler_broadcast(packet) ELSE Log("EULER")
        ELSE IF packet_addr = all_proc_start_addr
            THEN IF n = 55 THEN decode_all_proc_broadcast(packet)
                 ELSE IF n = 23 THEN decode_proc_broadcast("GYRO_PROC", packet) ELSE Log("GYRO_PROC")
        ELSE IF packet_addr = accel_proc_start_addr
            THEN IF n = 23 THEN decode_proc_broadcast("ACCEL_PROC", packet) ELSE Log("ACCEL_PROC")
        ELSE IF packet_addr = mag_proc_start_addr
            THEN IF n = 23 THEN decode_proc_broadcast("MAG_PROC", packet) ELSE Log("MAG_PROC")
        ELSE IF packet_addr = all_raw_start_addr
            THEN IF n = 51 THEN decode_all_raw_broadcast(packet)
                 ELSE IF n = 19 THEN decode_raw_broadcast("GYRO_RAW", packet) ELSE Log("GYRO_RAW")
        ELSE IF packet_addr = accel_raw_start_addr
            THEN IF n = 19 THEN decode_raw_broadcast("ACCEL_RAW", packet) ELSE Log("ACCEL_RAW")
        ELSE IF packet_addr = mag_raw_start_addr
            THEN IF n = 23 THEN decode_raw_broadcast("MAG_RAW", packet) ELSE Log("MAG_RAW")
        ELSE IF packet_addr = quat_addr
            THEN IF n = 19 THEN decode_quaternion_broadcast(packet) ELSE Log("QUAT")
        ELSE IF packet_addr = gyro_bias_start_addr
            THEN IF n = 19 THEN decode_gyro_bias_broadcast(packet) ELSE Log("GYRO_1_BIAS")
        ELSE IF start_reg_found
            THEN Log("BROADCAST ERROR")
            ELSE Throw("BROADCAST ERROR", "AttributeError")

\* The inner loop, lines 376-479, run until it yields, raises or finds the
\* buffer empty.
RECURSIVE drain(_)
drain(buf) ==
    IF Len(buf) = 0
    THEN [event |-> "empty", kind |-> "none", exc |-> "none",
          packet |-> <<>>, data |-> <<>>, buffer |-> buf]
    ELSE LET found == find_packet(buf)
             packet == found[1]
             rest == found[2]
         IN  IF Len(packet) > 7
             THEN LET d == dispatch(packet)
                  IN  IF d.act = "log"
                      THEN drain(rest)
                      ELSE [event |-> d.act, kind |-> d.kind, exc |-> d.exc,
                            packet |-> packet, data |-> d.data, buffer |-> rest]
             ELSE drain(rest)

\* Values of num_packets the callers pass: the default and counts.
NumPackets == {-1, 0, 1}

\* What a streaming device may send: health broadcasts (valid,
\* checksum-corrupt, command_failed, of a wrong length), a frame at an
\* address the directory does not hold, a frame of a register that is not a
\* broadcast start, quaternion and gyro bias broadcasts, an acknowledgement.
BroadcastFrames ==
    { Frame(128, 85, <<0, 0, 0, 1>>),
      Corrupt(Frame(128, 85, <<0, 0, 0, 2>>)),
      Frame(129, 85, <<0, 0, 0, 3>>),
      Frame(136, 85, <<0, 0, 0, 4, 0, 0, 0, 0>>),
      Frame(128, 48, <<0, 0, 0, 5>>),
      Frame(128, 0, <<0, 0, 0, 6>>),
      Frame(204, 109, <<0, 1, 0, 2, 0, 3, 0, 0, 0, 0, 0, 7>>),
      Frame(204, 137, <<0, 0, 0, 1, 0, 0, 0, 2, 0, 0, 0, 8>>),
      Frame(0, 0, <<>>) }

BroadcastStreams == UNION { Streams(fs) : fs \in SeqsUpTo(BroadcastFrames, MaxFrames) }

BroadcastInit ==
    /\ CodecIdle
    /\ buffer = <<>>
    /\ arrived \in SeqsUpTo(BroadcastFrames, MaxFrames)
    /\ rx \in Streams(arrived)
    /\ pc = "idle"
    /\ call = NoCall
    /\ sent = <<>>
    /\ elapsed = 0
    /\ result = NoResult
    /\ reply = <<>>
    /\ gen = NoGenerator
    /\ yielded = <<>>

\* recv_broadcast(num_packets): the generator object is made.
RecvBroadcast(num_packets) ==
    /\ pc = "idle"
    /\ gen.state = "none"
    /\ gen' = [state |-> "created", num_packets |-> num_packets,
               received_packets |-> 0, exc |-> "none",
               flush_buffer_on_start |-> "omitted"]
    /\ UNCHANGED <<buffer, rx, pc, yielded, arrived>>
    /\ UNCHANGED callVars
    /\ UNCHANGED codecVars

\* recv_broadcast(num_packets=..., flush_buffer_on_start=...), as the
\* examples call it: recv_broadcast has no parameter of that name, the
\* call raises TypeError and no generator is made.
RecvBroadcastFlush(num_packets, flush_buffer_on_start) ==
    /\ pc = "idle"
    /\ gen.state = "none"
    /\ gen' = [state |-> "refused", num_packets |-> num_packets,
               received_packets |-> 0, exc |-> "TypeError",
               flush_buffer_on_start |-> flush_buffer_on_start]
    /\ UNCHANGED <<buffer, rx, pc, yielded, arrived>>
    /\ UNCHANGED callVars
    /\ UNCHANGED codecVars

\* The outer loop's test, line 374: recv is entered, or the generator ends.
OuterLoop(received_packets) ==
    IF gen.num_packets = -1 \/ received_packets < gen.num_packets
    THEN /\ gen' = [gen EXCEPT !.state = "running",
                               !.received_packets = received_packets]
         /\ pc' = "bcast_recv"
    ELSE /\ gen' = [gen EXCEPT !.state = "finished",
                               !.received_packets = received_packets]
         /\ pc' = "idle"

\* Mutant: the packet found is handed out ahead of those handed out before.
InnerLoop_prepend(buf, received_packets) ==
    LET d == drain(buf)
    IN  /\ buffer' = d.buffer
        /\ IF d.event = "yield"
           THEN /\ yielded' = <<[kind |-> d.kind, frame |-> d.packet,
                                 data |-> d.data]>> \o yielded
                /\ gen' = [gen EXCEPT !.state = "yielded",
                                      !.received_packets = received_packets]
                /\ pc' = "idle"
           ELSE IF d.event = "raise"
           THEN /\ yielded' = yielded
                /\ gen' = [gen EXCEPT !.state = "raised", !.exc = d.exc,
                                      !.received_packets = received_packets]
                /\ pc' = "idle"
           ELSE /\ yielded' = yielded
                /\ OuterLoop(received_packets)

\* The inner loop from buffer `buf' on, with received_packets as counted.
InnerLoop(buf, received_packets) ==
    LET d == drain(buf)
    IN  /\ buffer' = d.buffer
        /\ IF d.event = "yield"
           THEN /\ yielded' = Append(yielded, [kind |-> d.kind, frame |-> d.packet,
                                            data |-> d.data])
                /\ gen' = [gen EXCEPT !.state = "yielded",
                                      !.received_packets = received_packets]
                /\ pc' = "idle"
           ELSE IF d.event = "raise"
           THEN /\ yielded' = yielded
                /\ gen' = [gen EXCEPT !.state = "raised", !.exc = d.exc,
                                      !.received_packets = received_packets]
                /\ pc' = "idle"
           ELSE /\ yielded' = yielded
                /\ OuterLoop(received_packets)

\* The first next(): line 373 and the outer loop's test.
BroadcastStart ==
    /\ pc = "idle"
    /\ gen.state = "created"
    /\ OuterLoop(0)
    /\ UNCHANGED <<buffer, rx, yielded, arrived>>
    /\ UNCHANGED callVars
    /\ UNCHANGED codecVars

\* next() after a yield: received_packets += 1, then the inner loop goes on.
BroadcastResume ==
    /\ pc = "idle"
    /\ gen.state = "yielded"
    /\ InnerLoop(buffer, gen.received_packets + 1)
    /\ UNCHANGED <<rx, arrived>>
    /\ UNCHANGED callVars
    /\ UNCHANGED codecVars

\* One port.read inside recv, line 375; with a non-empty buffer recv
\* returns and the inner loop runs.
BroadcastRecv ==
    /\ pc = "bcast_recv"
    /\ \E k \in ReadCounts :
         LET buf == buffer \o SubSeq(rx, 1, k)
         IN  /\ rx' = SubSeq(rx, k + 1, Len(rx))
             /\ IF Len(buf) > 0
                THEN InnerLoop(buf, gen.received_packets)
                ELSE UNCHANGED <<buffer, pc, gen, yielded>>
    /\ UNCHANGED arrived
    /\ UNCHANGED callVars
    /\ UNCHANGED codecVars

CallRecvBroadcast == \E n \in NumPackets : RecvBroadcast(n)

BroadcastNext ==
    \/ CallRecvBroadcast
    \/ BroadcastStart
    \/ BroadcastResume
    \/ BroadcastRecv

BroadcastSpec == BroadcastInit /\ [][BroadcastNext]_vars

(***************************************************************************)
(* Claims about the broadcast decoder, checked under BroadcastSpec.        *)
(***************************************************************************)

\* C8: every packet recv_broadcast yields comes from a frame that passes
\* both verify_checksum and check_packet.
C8_YieldsOnlyValidFrames ==
    \A i \in 1..Len(yielded) :
        verify_checksum(yielded[i].frame) /\ check_packet(yielded[i].frame)

\* C9: a frame longer than 7 bytes whose address and length match no
\* broadcast shape, an address outside the register directory included,
\* is logged and dropped: the generator is never ended by the exception
\* that formatting the log line for such a frame raises.
C9_UnknownFrameNeverAborts ==
    ~(gen.state = "raised" /\ gen.exc = "AttributeError")

\* s is the start of t.
IsPrefix(s, t) == Len(s) <= Len(t) /\ SubSeq(t, 1, Len(s)) = s

\* Frames recv_broadcast rejects: a health frame of a wrong length and a
\* frame of a register that starts no broadcast.
RejectedFrames ==
    { Frame(136, 85, <<0, 0, 0, 4, 0, 0, 0, 0>>), Frame(128, 0, <<0, 0, 0, 6>>) }

\* C14 as stated: when the bytes recv_broadcast drains start with a
\* rejected frame followed by a well-formed health frame, the rejected
\* frame costs nothing: the health frame is extracted unchanged and is the
\* next packet yielded.
C14_NextFrameSurvives ==
    [][ (pc = "bcast_recv" /\ yielded = <<>>
         /\ \E bad \in RejectedFrames :
               IsPrefix(bad \o Frame(128, 85, <<0, 0, 0, 1>>), buffer \o Chunk))
        => /\ Len(yielded') = 1
           /\ yielded'[1].kind = "HEALTH"
           /\ yielded'[1].frame = Frame(128, 85, <<0, 0, 0, 1>>) ]_vars

\* C20 as stated: with num_packets = N >= 0 recv_broadcast produces at
\* most N packets, and with N = 0 it reads nothing from the transport.
C20_AtMostNumPackets ==
    gen.num_packets >= 0 =>
        /\ Len(yielded) <= gen.num_packets
        /\ gen.num_packets = 0 => pc # "bcast_recv"

\* C19: the packets recv_broadcast has yielded are, in order, frames of the
\* stream at strictly increasing positions: an order-preserving
\* subsequence of the arrival sequence, no frame yielded twice.
C19_YieldedInArrivalOrder ==
    \E f \in [1..Len(yielded) -> 1..Len(arrived)] :
        /\ \A i \in 1..Len(yielded) : yielded[i].frame = arrived[f[i]]
        /\ \A i, j \in 1..Len(yielded) : i < j => f[i] < f[j]

\* Two different frames of the stream, both yielded.
C19_Witness ==
    /\ Len(yielded) = 2
    /\ yielded[1].frame # yielded[2].frame
    /\ yielded[1].frame = arrived[1]
    /\ yielded[2].frame = arrived[2]

(***************************************************************************)
(* Register reads and the broadcast generator on one connection: both use  *)
(* self.buffer and self.port.  The program is single-threaded: a call of   *)
(* read_register runs while the generator is suspended or not yet started. *)
(***************************************************************************)

SharedMaxFrames == 3

\* The device streams health broadcasts and answers reads of register 0;
\* every frame carries its own payload, so a frame names its place in the
\* stream.
SharedFrames ==
    { Frame(128, 85, <<0, 0, 0, 1>>),
      Frame(128, 0, <<0, 0, 0, 2>>),
      Frame(128, 85, <<0, 0, 0, 3>>) }

Injective(fs) == \A i, j \in 1..Len(fs) : fs[i] = fs[j] => i = j

SharedRegAddrs == {0, health_start_addr}

SharedInit ==
    /\ CodecIdle
    /\ buffer = <<>>
    /\ arrived \in { fs \in SeqsUpTo(SharedFrames, SharedMaxFrames) : Injective(fs) }
    /\ rx \in Streams(arrived)
    /\ pc = "idle"
    /\ call = NoCall
    /\ sent = <<>>
    /\ elapsed = 0
    /\ result = NoResult
    /\ reply = <<>>
    /\ gen = NoGenerator
    /\ yielded = <<>>

SharedCallRead == \E a \in SharedRegAddrs : ReadRegister(a, FALSE)

CallRecvBroadcastFlush ==
    \E n \in NumPackets, f \in {"True", "False"} : RecvBroadcastFlush(n, f)

SharedNext ==
    \/ SharedCallRead
    \/ ReadFirstRecv
    \/ ReadRetryRecv
    \/ CallRecvBroadcast
    \/ CallRecvBroadcastFlush
    \/ BroadcastStart
    \/ BroadcastResume
    \/ BroadcastRecv

SharedSpec == SharedInit /\ [][SharedNext]_vars

(***************************************************************************)
(* Claims about the shared connection, checked under SharedSpec.           *)
(***************************************************************************)

\* The place of frame f in the stream (0: not a frame of the stream).
Pos(f) ==
    IF \E i \in 1..Len(arrived) : arrived[i] = f
    THEN CHOOSE i \in 1..Len(arrived) : arrived[i] = f
    ELSE 0

\* C15: when read_register finds its response, the frames that came before
\* it are gone from the buffer and none was handed to the generator; and
\* every packet the generator yields after that read comes from a frame
\* that arrived after the response.
C15_SkippedFramesNeverYielded ==
    /\ [][ (call.op = "read" /\ pc \in {"read_first", "read_retry"}
             /\ pc' = "idle" /\ result'.status = "ok")
            => /\ Pos(reply') > 0
               /\ yielded' = yielded
               /\ \A i \in 1..Len(arrived) :
                      i < Pos(reply') => ~IsInfix(arrived[i], buffer') ]_vars
    /\ [][ (call.op = "read" /\ pc = "idle" /\ result.status = "ok"
             /\ Len(yielded') > Len(yielded))
            => Pos(yielded'[Len(yielded')].frame) > Pos(reply) ]_vars

\* A read passed over a frame before its response, and the generator then
\* yielded a later frame.
C15_Witness ==
    /\ call.op = "read"
    /\ pc = "idle"
    /\ result.status = "ok"
    /\ Pos(reply) = 2
    /\ arrived[1][5] = health_start_addr
    /\ Len(yielded) = 1
    /\ Pos(yielded[1].frame) = 3

\* The generator is the one that runs in this step.
GeneratorRuns ==
    \/ pc = "bcast_recv"
    \/ pc = "idle" /\ gen.state = "yielded" /\ pc' \in {"idle", "bcast_recv"}

\* The bytes the inner loop of recv_broadcast works on in this step.
Drained == IF pc = "bcast_recv" THEN buffer \o Chunk ELSE buffer

\* C16: with a read of DREG_HEALTH requested on the connection, when the
\* bytes recv_broadcast drains start with a frame of that address and of
\* length 11, recv_broadcast yields that frame as a health packet.
C16_ResponseYieldedAsTelemetry ==
    [][ (GeneratorRuns /\ Len(Drained) > 0
         /\ call.op = "read" /\ call.reg_addr = health_start_addr
         /\ Len(find_packet(Drained)[1]) = 11
         /\ find_packet(Drained)[1][5] = call.reg_addr)
        => /\ Len(yielded') = Len(yielded) + 1
           /\ SubSeq(yielded', 1, Len(yielded)) = yielded
           /\ yielded'[Len(yielded')].kind = "HEALTH"
           /\ yielded'[Len(yielded')].frame = find_packet(Drained)[1] ]_vars

\* read_register(DREG_HEALTH) took the first health frame for its
\* response; the generator then yielded the second.
C16_Witness ==
    /\ call.op = "read"
    /\ call.reg_addr = health_start_addr
    /\ result.status = "ok"
    /\ Pos(reply) = 1
    /\ Len(yielded) = 1
    /\ Pos(yielded[1].frame) = 2
    /\ yielded[1].frame[5] = health_start_addr

\* C21 as stated: a call that starts a broadcast decode sequence makes the
\* generator; with flush-on-start requested it empties the receive buffer,
\* without it the buffer is kept as it is.
C21_FlushOnStart ==
    [][ (gen.state = "none" /\ gen'.state # "none")
        => /\ gen'.state = "created"
           /\ gen'.flush_buffer_on_start = "True" => buffer' = <<>>
           /\ gen'.flush_buffer_on_start # "True" => buffer' = buffer ]_vars

(***************************************************************************)
(* The register accessors of UM7Registers: a property per register, with   *)
(* a getter and a setter as the register's access mode allows.             *)
(***************************************************************************)

\* Four registers of the directory, one of each kind.
Registers ==
    { [name |-> "creg_com_settings", address |-> 0, access |-> "read-write"],
      [name |-> "dreg_health", address |-> 85, access |-> "read-only"],
      [name |-> "flash_commit", address |-> 171, access |-> "write-only"],
      [name |-> "zero_gyros", address |-> 173, access |-> "write-only"] }

\* The accessor fails on the spot: nothing is sent, nothing is read.
AccessFails(op, reg, exc) ==
    /\ call' = [op |-> op, reg_addr |-> reg.address, hidden |-> FALSE]
    /\ result' = [status |-> exc, payload |-> <<>>]
    /\ sent' = <<>>
    /\ elapsed' = 0
    /\ reply' = <<>>
    /\ UNCHANGED <<buffer, rx, pc, arrived>>
    /\ UNCHANGED codecVars
    /\ UNCHANGED bcastVars

\* Mutant: the getter of every register reads the register.
Getter_reads(reg) == ReadRegister(reg.address, FALSE)

\* um7.<name>: the getter of a write-only register raises RuntimeError,
\* every other getter calls read_register(addr).
Getter(reg) ==
    /\ pc = "idle"
    /\ IF reg.access = "write-only"
       THEN AccessFails("get", reg, "RuntimeError")
       ELSE ReadRegister(reg.address, FALSE)

\* um7.<name> = new_value: a read-only register's property has no setter
\* and the assignment raises AttributeError; every other setter calls
\* write_register(addr, new_value).
Setter(reg, new_value) ==
    /\ pc = "idle"
    /\ IF reg.access = "read-only"
       THEN AccessFails("set", reg, "AttributeError")
       ELSE WriteRegister(reg.address, new_value, FALSE)

CallGetter == \E reg \in Registers : Getter(reg)
CallSetter == \E reg \in Registers, v \in RegValues : Setter(reg, v)

AccessNext ==
    \/ CallGetter
    \/ CallSetter
    \/ ReadFirstRecv
    \/ ReadRetryRecv
    \/ WriteRecv

AccessSpec == SharedInit /\ [][AccessNext]_vars

\* The access mode of the register at an address.
AccessOf(addr) == (CHOOSE reg \in Registers : reg.address = addr).access

\* C27: reading a write-only register or assigning to a read-only one
\* fails with an error in the accessor itself: no request is sent, no byte
\* is read from the line and the receive buffer is as it was.
C27_AccessViolationNoIO ==
    [][ (pc = "idle"
         /\ \/ call'.op \in {"get", "read"} /\ AccessOf(call'.reg_addr) = "write-only"
            \/ call'.op \in {"set", "write"} /\ AccessOf(call'.reg_addr) = "read-only")
        => /\ result'.status \in {"RuntimeError", "AttributeError"}
           /\ sent' = <<>>
           /\ rx' = rx
           /\ buffer' = buffer
           /\ pc' = "idle" ]_vars

\* The getter of a write-only register has failed with bytes waiting in
\* the receive buffer and on the line.
C27_Witness ==
    /\ call.op = "get"
    /\ AccessOf(call.reg_addr) = "write-only"
    /\ result.status = "RuntimeError"
    /\ Len(buffer) > 0
    /\ Len(rx) > 0

(***************************************************************************)
(* The broadcast decoders, checked on a stream of well-formed health,      *)
(* Euler and quaternion broadcasts run through recv_broadcast.             *)
(***************************************************************************)

\* Payloads of DREG_EULER_PHI_THETA broadcasts (batch of 5 registers):
\* roll, pitch, yaw, two unused bytes, the three rates, two unused bytes,
\* the time as a float.
EulerPayloads ==
    { <<35, 142, 220, 114, 0, 0, 0, 0,
        0, 1, 255, 255, 1, 0, 0, 0, 63, 128, 0, 0>>,
      <<128, 0, 127, 255, 35, 142, 0, 0,
        35, 142, 220, 114, 0, 0, 0, 0, 64, 0, 0, 0>> }

\* What a streaming device sends here: health broadcasts with words whose
\* bytes differ, Euler broadcasts with positive and negative words, a
\* quaternion broadcast.
DecodeFrames ==
    { Frame(128, 85, <<1, 2, 3, 4>>),
      Frame(128, 85, <<0, 0, 1, 0>>),
      Frame(128, 85, <<127, 255, 255, 255>>),
      Frame(204, 109, <<116, 93, 0, 0, 0, 0, 0, 0, 63, 128, 0, 0>>) }
    \cup { Frame(212, 112, payload) : payload \in EulerPayloads }

DecodeInit ==
    /\ CodecIdle
    /\ buffer = <<>>
    /\ arrived \in SeqsUpTo(DecodeFrames, MaxFrames)
    /\ rx \in Streams(arrived)
    /\ pc = "idle"
    /\ call = NoCall
    /\ sent = <<>>
    /\ elapsed = 0
    /\ result = NoResult
    /\ reply = <<>>
    /\ gen = NoGenerator
    /\ yielded = <<>>

DecodeSpec == DecodeInit /\ [][BroadcastNext]_vars

\* The first frame the inner loop of recv_broadcast finds in this step is a
\* valid frame at address addr of total length n.
DrainsValidFrame(addr, n) ==
    /\ GeneratorRuns
    /\ Len(Drained) > 0
    /\ Len(find_packet(Drained)[1]) = n
    /\ find_packet(Drained)[1][5] = addr
    /\ verify_checksum(find_packet(Drained)[1])
    /\ check_packet(find_packet(Drained)[1])

\* The packet recv_broadcast hands out in this step.
Handed == yielded'[Len(yielded')]

\* One more packet is handed out, of this kind and from this frame.
HandsOut(kind, frame) ==
    /\ Len(yielded') = Len(yielded) + 1
    /\ SubSeq(yielded', 1, Len(yielded)) = yielded
    /\ Handed.kind = kind
    /\ Handed.frame = frame

\* The signed 16-bit word of two bytes, high byte first.
SignedWord(hi, lo) == IF hi >= 128 THEN 256 * hi + lo - 65536 ELSE 256 * hi + lo

\* C28: a valid frame at the address of DREG_HEALTH of total length 11 is
\* yielded by recv_broadcast as a health packet whose health field is the
\* big-endian unsigned 32-bit value of payload bytes 0 to 3.
C28_HealthDecoded ==
    [][ DrainsValidFrame(health_start_addr, 11)
        => LET f == find_packet(Drained)[1]
           IN  /\ HandsOut("HEALTH", f)
               /\ Handed.data.health
                    = f[6] * 16777216 + f[7] * 65536 + f[8] * 256 + f[9] ]_vars

\* The health broadcast with payload 01 02 03 04 was yielded with health
\* 0x01020304.
C28_Witness ==
    \E i \in 1..Len(yielded) :
        /\ yielded[i].kind = "HEALTH"
        /\ SubSeq(yielded[i].frame, 6, 9) = <<1, 2, 3, 4>>
        /\ yielded[i].data.health = 16909060

\* C29 as stated: a valid quaternion frame (address of DREG_QUAT_AB, total
\* length 19) always produces a quaternion packet: its four components are
\* the signed words at payload bytes 0 to 7, each divided by 29789.09091,
\* its time the float at payload bytes 8 to 11.
C29_QuaternionDecoded ==
    [][ DrainsValidFrame(quat_addr, 19)
        => LET f == find_packet(Drained)[1]
           IN  /\ HandsOut("QUAT", f)
               /\ Handed.data.scale = "29789.09091"
               /\ Handed.data.q_w = SignedWord(f[6], f[7])
               /\ Handed.data.q_x = SignedWord(f[8], f[9])
               /\ Handed.data.q_y = SignedWord(f[10], f[11])
               /\ Handed.data.q_z = SignedWord(f[12], f[13])
               /\ Handed.data.q_time = Float32(SubSeq(f, 14, 17)) ]_vars

\* q is the exact quotient raw / 91.02222.
IsEulerScaled(q, raw) == q.num = raw * 50000 /\ q.den = 4551111

\* |q - 100| < 1/100
Near100(q) ==
    LET d == q.num - 100 * q.den
    IN  (IF d < 0 THEN -d ELSE d) * 100 < q.den

\* C30: a valid Euler broadcast frame is yielded with roll, pitch, yaw and
\* the three rates each the signed word divided by 91.02222; a raw roll of
\* 9102 gives a roll within 0.01 of 100.0 degrees.
C30_EulerScaling ==
    [][ DrainsValidFrame(euler_start_addr, 27)
        => LET f == find_packet(Drained)[1]
           IN  /\ HandsOut("EULER", f)
               /\ IsEulerScaled(Handed.data.roll, SignedWord(f[6], f[7]))
               /\ IsEulerScaled(Handed.data.pitch, SignedWord(f[8], f[9]))
               /\ IsEulerScaled(Handed.data.yaw, SignedWord(f[10], f[11]))
               /\ IsEulerScaled(Handed.data.roll_rate, SignedWord(f[14], f[15]))
               /\ IsEulerScaled(Handed.data.pitch_rate, SignedWord(f[16], f[17]))
               /\ IsEulerScaled(Handed.data.yaw_rate, SignedWord(f[18], f[19]))
               /\ SignedWord(f[6], f[7]) = 9102 => Near100(Handed.data.roll) ]_vars

\* The Euler broadcast with raw roll 9102 and raw pitch -9102 was yielded.
C30_Witness ==
    \E i \in 1..Len(yielded) :
        /\ yielded[i].kind = "EULER"
        /\ SubSeq(yielded[i].frame, 6, 9) = <<35, 142, 220, 114>>
        /\ yielded[i].data.roll.num = 455100000
        /\ yielded[i].data.pitch.num = -455100000
        /\ Near100(yielded[i].data.roll)

(***************************************************************************)
(* Claims about the register directory, checked under CodecSpec.           *)
(***************************************************************************)

\* The registers of the directory a lookup is made in.
Directory == IF cargs[1] = "main" THEN regs ELSE hidden_regs

\* C31: for every address the directory holds, the lookup by address
\* returns a register r at that address, and the lookup by r.name returns
\* the same register; in the main directory and in the hidden one.
C31_LookupRoundTrip ==
    (ctest = "lookup" /\ cout # <<>>
     /\ \E i \in 1..Len(Directory) : Directory[i].address = cargs[2])
    => /\ built.exc = "none"
       /\ built.val[1].address = cargs[2]
       /\ cout[1] = Return(<<built.val[1]>>)

\* Address 0x64 is held by two registers of the main directory; the
\* lookup returned the first, and the lookup by its name returned it too.
C31_Witness ==
    /\ ctest = "lookup"
    /\ cargs = <<"main", 100>>
    /\ cout # <<>>
    /\ built.val[1].name = "CREG_MAG_CAL3_3"
    /\ cout[1].val[1].name = "CREG_MAG_CAL3_3"

(***************************************************************************)
(* Claims about what find_response works on, checked under Spec and        *)
(* CodecSpec.                                                              *)
(***************************************************************************)

\* C32 as stated: the frame whose payload read_register returns was
\* delivered after the call sent its request: the frame ends beyond the
\* bytes that were in the receive buffer when the call began.
C32_ReplyAfterRequest ==
    [][ (pc = "read_first" /\ result'.status = "ok")
        => Len(buffer \o Chunk) - Len(buffer') > Len(buffer) ]_vars

\* buf holds a complete frame of 11 bytes for the running read, with the
\* preamble of the next frame behind it.
HoldsResponse(buf) ==
    \E i \in 0..(Len(buf) - 14) :
        LET f == SubSeq(buf, i + 1, i + 11)
        IN  /\ SubSeq(f, 1, 3) = get_preamble
            /\ PyFind(SubSeq(f, 4, 11), get_preamble) = -1
            /\ SubSeq(buf, i + 12, i + 14) = get_preamble
            /\ f[5] = call.reg_addr
            /\ HiddenBit(f) = call.hidden

\* C33 as stated: when the buffer find_response works on holds a complete
\* frame matching the read, followed by another preamble, find_response
\* returns a matching frame, whatever precedes it.
C33_ResponseFoundBehindAnything ==
    [][ (pc \in {"read_first", "read_retry"} /\ HoldsResponse(buffer \o Chunk))
        => /\ reply' # <<>>
           /\ response_matches(reply', call.reg_addr, call.hidden, 11) ]_vars

\* C34 as stated: find_response never reads a byte out of range: no call
\* of read_register or write_register ends with an IndexError.
C34_NoIndexError ==
    call.op \in {"read", "write"} => result.status # "IndexError"

\* C35: find_packet on a non-empty buffer leaves a remainder strictly
\* shorter than the buffer, so a loop that calls it while the buffer is
\* non-empty ends.
C35_RemainderShrinks ==
    [][ (ctest = "carve" /\ Len(cbuf) > 0) => Len(cbuf') < Len(cbuf) ]_vars

\* find_packet has cut the two bytes "sn" off a buffer whose last frame
\* has no preamble behind it, and bytes are left.
C35_Witness ==
    /\ ctest = "carve"
    /\ Len(cout) >= 2
    /\ cout[Len(cout)] = <<115, 110>>
    /\ Len(cbuf) > 0

\* C36 as stated: a valid frame at the address of DREG_GYRO_BIAS_X of total
\* length 19 makes recv_broadcast yield a gyro bias packet with the three
\* 32-bit values of payload bytes 0 to 11, and does not end the generator.
C36_GyroBiasDecoded ==
    [][ DrainsValidFrame(gyro_bias_start_addr, 19)
        => LET f == find_packet(Drained)[1]
           IN  /\ gen'.state # "raised"
               /\ HandsOut("GYRO_1_BIAS", f)
               /\ Handed.data = <<Float32(SubSeq(f, 6, 9)), Float32(SubSeq(f, 10, 13)),
                                  Float32(SubSeq(f, 14, 17))>> ]_vars

(***************************************************************************)
(* The generators for one telemetry type, recv_<type>_broadcast, next to   *)
(* the dispatch of recv_broadcast: both are asked about the same frame.    *)
(***************************************************************************)

\* recv_<type>_broadcast, lines 306-370: the address and the length each
\* hands to recv_broadcast_packet.
DedicatedGenerators ==
    { [kind |-> "ALL_RAW", packet_target_addr |-> all_raw_start_addr,
       expected_packet_length |-> 51],
      [kind |-> "ALL_PROC", packet_target_addr |-> all_proc_start_addr,
       expected_packet_length |-> 55],
      [kind |-> "EULER", packet_target_addr |-> euler_start_addr,
       expected_packet_length |-> 27],
      [kind |-> "QUAT", packet_target_addr |-> quat_addr,
       expected_packet_length |-> 19],
      [kind |-> "HEALTH", packet_target_addr |-> health_start_addr,
       expected_packet_length |-> 11],
      [kind |-> "ACCEL_RAW", packet_target_addr |-> accel_raw_start_addr,
       expected_packet_length |-> 19],
      [kind |-> "GYRO_RAW", packet_target_addr |-> all_raw_start_addr,
       expected_packet_length |-> 19],
      [kind |-> "MAG_RAW", packet_target_addr |-> mag_raw_start_addr,
       expected_packet_length |-> 19],
      [kind |-> "ACCEL_PROC", packet_target_addr |-> accel_proc_start_addr,
       expected_packet_length |-> 23],
      [kind |-> "GYRO_PROC", packet_target_addr |-> all_proc_start_addr,
       expected_packet_length |-> 23],
      [kind |-> "MAG_PROC", packet_target_addr |-> mag_proc_start_addr,
       expected_packet_length |-> 23] }

\* Lines 287-303: recv_broadcast_packet passes the packet to its decoder.
recv_broadcast_packet_accepts(packet, packet_target_addr, expected_packet_length) ==
    /\ Len(packet) > 7
    /\ packet[5] = packet_target_addr
    /\ Len(packet) = expected_packet_length
    /\ verify_checksum(packet)
    /\ check_packet(packet)

\* The kind recv_broadcast passes the packet's decoder for, "none" when it
\* only logs the packet.
recv_broadcast_accepts(packet) ==
    IF Len(packet) > 7 /\ dispatch(packet).act # "log"
    THEN dispatch(packet).kind
    ELSE "none"

\* Total lengths of the broadcast frames of the sensor: batches of 1, 3,
\* 4, 5, 11 and 12 registers.
BroadcastLengths == {11, 19, 23, 27, 51, 55}

\* A valid batch frame at an address, of a total length.
ShapedFrame(addr, n) == Frame(192 + (n - 7), addr, Rep(n - 7, 0))

ClassifyInit ==
    /\ ctest = "classify"
    /\ cframes = <<>>
    /\ \E g \in DedicatedGenerators, n \in BroadcastLengths :
          cbuf = ShapedFrame(g.packet_target_addr, n)
    /\ cout = <<>>
    /\ cargs = <<0, 0, <<>>>>
    /\ built = NotBuilt
    /\ verified = NotVerified
    /\ DriverIdle

\* The packet in the inner loop of recv_broadcast.
ClassifyGeneric ==
    /\ ctest = "classify"
    /\ built = NotBuilt
    /\ built' = Return(<<recv_broadcast_accepts(cbuf)>>)
    /\ UNCHANGED <<ctest, cframes, cbuf, cout, cargs, verified>>
    /\ UNCHANGED driverVars

\* The packet in the inner loop of each recv_<type>_broadcast.
ClassifyDedicated ==
    /\ ctest = "classify"
    /\ cout = <<>>
    /\ cout' = << { g.kind : g \in { h \in DedicatedGenerators :
                       recv_broadcast_packet_accepts(cbuf, h.packet_target_addr,
                                                     h.expected_packet_length) } } >>
    /\ UNCHANGED <<ctest, cframes, cbuf, cargs, built, verified>>
    /\ UNCHANGED driverVars

ClassifyNext ==
    \/ ClassifyGeneric
    \/ ClassifyDedicated

ClassifySpec == ClassifyInit /\ [][ClassifyNext]_vars

\* C37 as stated: recv_broadcast classifies a frame as a telemetry type
\* exactly when the generator for that type accepts the frame.
C37_SameShapes ==
    (ctest = "classify" /\ built # NotBuilt /\ cout # <<>>)
    => \A g \in DedicatedGenerators : (built.val[1] = g.kind) <=> (g.kind \in cout[1])

\* C38: a read_register that reports success returns a payload of exactly
\* 4 bytes.
C38_ReadPayloadFourBytes ==
    (call.op = "read" /\ result.status = "ok") => Len(result.payload) = 4

\* A read has returned the four payload bytes of a response.
C38_Witness ==
    /\ call.op = "read"
    /\ pc = "idle"
    /\ result.status = "ok"
    /\ Len(reply) = 11
    /\ result.payload = <<0, 0, 0, 1>>

\* C39: get_packet_type gives back the five values construct_packet_type
\* packed, for every data_length from 0 to 15, and construct_packet_type
\* gives back the byte get_packet_type took apart, for every byte.
C39_PacketTypeInverse ==
    /\ (ctest = "type" /\ cout # <<>>) => cout[1] = cargs
    /\ (ctest = "type" /\ built.exc = "none") => cargs[3] <= 15
    /\ (ctest = "byte" /\ built # NotBuilt) => built = Return(<<cargs[1]>>)

\* The byte 0xBE was taken apart into (true, false, 15, true, false), from
\* which it had been packed.
C39_Witness ==
    /\ ctest = "type"
    /\ cargs = <<TRUE, FALSE, 15, TRUE, FALSE>>
    /\ built.val = <<190>>
    /\ cout = <<cargs>>

\* C40: for a payload of at most 4 * 15 = 60 bytes the sum of preamble,
\* type, address and payload is below 2^16: construct_packet returns a
\* frame whose last two bytes hold exactly that sum.
C40_ProtocolFrameSumFits ==
    (ctest = "build" /\ built # NotBuilt /\ Len(cargs[3]) <= 4 * MaxBatchLength)
    => /\ ArgsSum < 65536
       /\ built.exc = "none"
       /\ built.val[Len(built.val) - 1] * 256 + built.val[Len(built.val)] = ArgsSum

\* The frame with the largest sum: type 0xFF, address 0xFF, 60 bytes 0xFF.
C40_Witness ==
    /\ ctest = "build"
    /\ cargs = <<255, 255, Rep(60, 255)>>
    /\ built.exc = "none"
    /\ SliceFrom(built.val, -2) = <<63, 19>>

====
